---- MODULE Spec2Model ----
(***************************************************************************)
(* A model of the angelscript-ts tree-walking interpreter: the value       *)
(* model (values.ts), the scope chain (environment.ts), the evaluator      *)
(* (interpreter.ts) and the host API (bindings.ts).  One host operation    *)
(* (load, call, wrapNative/unwrap) is one action: the engine is            *)
(* single-threaded and synchronous, every operation runs to completion.    *)
(***************************************************************************)
EXTENDS Integers, Sequences, FiniteSets, TLC

VARIABLES
    globals,    \* Interpreter.globals: the variables of the global Environment
    classDefs,  \* Interpreter.classDefs: class name -> ClassDecl
    heap,       \* every ObjectValue / ArrayValue / NativeObjectValue created so far
    out,        \* what the host's registered print native has received
    script,     \* the source text the host loads into this engine
    phase,      \* "new" (constructed), "loaded", "failed" (load threw)
    ncalls,     \* host operations made after load
    last        \* the host's view of its last operation and what it returned

vars == <<globals, classDefs, heap, out, script, phase, ncalls, last>>

(***************************************************************************)
(* JavaScript numbers.  A number is <<n, d, k>> and stands for             *)
(* n/d + k * 2^32 with d >= 1, n/d in lowest terms and                     *)
(* -2^31 <= n/d < 2^31, so that an integer's 32-bit truncation is its n.   *)
(* d = 0 is NaN.  The representation keeps every intermediate inside the   *)
(* range of the model checker's integers.                                  *)
(***************************************************************************)
MaxInt32 == 2147483647
MinInt32 == -MaxInt32 - 1

Num(i) == <<i, 1, 0>>
NaN == <<0, 0, 0>>
IsNaN(a) == a[2] = 0
\* Number.isInteger
IsInteger(a) == a[2] = 1

Abs(i) == IF i < 0 THEN -i ELSE i

RECURSIVE GCD(_, _)
GCD(a, b) == IF b = 0 THEN a ELSE GCD(b, a % b)

\* n/d in lowest terms, d > 0
NormQ(n, d, k) ==
    LET g == GCD(d, n % d) IN
    IF n = 0 THEN <<0, 1, k>> ELSE <<n \div g, d \div g, k>>

\* the sum of two 32-bit integers as <<low 32 bits (signed), carry>>
AddInt(a, b) ==
    IF a >= 0 /\ b >= 0 /\ a > MaxInt32 - b
        THEN <<(a + MinInt32) + (b + MinInt32), 1>>
    ELSE IF a < 0 /\ b < 0 /\ a < MinInt32 - b
        THEN <<(a - MinInt32) + (b - MinInt32), -1>>
    ELSE <<a + b, 0>>

NumAdd(a, b) ==
    IF IsNaN(a) \/ IsNaN(b) THEN NaN
    ELSE IF a[2] = 1 /\ b[2] = 1
        THEN LET s == AddInt(a[1], b[1]) IN <<s[1], 1, a[3] + b[3] + s[2]>>
    ELSE NormQ(a[1] * b[2] + b[1] * a[2], a[2] * b[2], a[3] + b[3])

NumNeg(a) ==
    IF IsNaN(a) THEN NaN
    ELSE IF a[1] = MinInt32 /\ a[2] = 1 THEN <<MinInt32, 1, 1 - a[3]>>
    ELSE <<-a[1], a[2], -a[3]>>

NumSub(a, b) == NumAdd(a, NumNeg(b))

\* n/d truncated toward zero
TruncQ(n, d) == IF n >= 0 THEN n \div d ELSE -((-n) \div d)

\* the sign of a number: -1, 0, 1
NumSign(a) ==
    IF a[3] # 0 THEN (IF a[3] > 0 THEN 1 ELSE -1)
    ELSE IF a[1] > 0 THEN 1 ELSE IF a[1] < 0 THEN -1 ELSE 0

NumLess(a, b) ==
    /\ ~IsNaN(a) /\ ~IsNaN(b)
    /\ \/ a[3] < b[3]
       \/ a[3] = b[3] /\ a[1] * b[2] < b[1] * a[2]

\* JavaScript's ===  on numbers
NumEq(a, b) == ~IsNaN(a) /\ ~IsNaN(b) /\ a = b

\* JavaScript's  value | 0  (ToInt32)
ToInt32_trunc(a) ==
    IF IsNaN(a) THEN 0
    ELSE IF a[2] = 1 THEN a[1]
    ELSE IF a[3] = 0 THEN TruncQ(a[1], a[2])
    ELSE IF a[3] > 0 THEN a[1] \div a[2]
    ELSE -((-a[1]) \div a[2])

ToInt32(a) == Num(ToInt32_trunc(a))

\* 2^e for 0 <= e <= 30
RECURSIVE Pow2(_)
Pow2(e) == IF e >= 8 THEN 256 * Pow2(e - 8) ELSE <<1, 2, 4, 8, 16, 32, 64, 128>>[e + 1]

\* the number x times 2^s, for an integer x and s in 8, 16, 24
Scale(x, s) ==
    LET P == Pow2(32 - s)
        hi == x[1] \div P
        lo == x[1] % P
    IN IF lo >= P \div 2 THEN <<(lo - P) * Pow2(s), 1, x[3] * Pow2(s) + hi + 1>>
       ELSE <<lo * Pow2(s), 1, x[3] * Pow2(s) + hi>>

\* the exact product of a 32-bit integer a and c with -128 <= c <= 255
MulSmall(a, c) == NumAdd(Scale(Num((a \div 65536) * c), 16), Num((a % 65536) * c))

\* the exact product of two 32-bit integers, b taken byte by byte
IntMul(a, b) ==
    NumAdd(NumAdd(Scale(MulSmall(a, b \div 16777216), 24),
                  Scale(MulSmall(a, (b \div 65536) % 256), 16)),
           NumAdd(Scale(MulSmall(a, (b \div 256) % 256), 8),
                  MulSmall(a, b % 256)))

\* the number of bits of a natural number
RECURSIVE BitLength(_)
BitLength(n) ==
    IF n = 0 THEN 0
    ELSE IF n >= 65536 THEN 16 + BitLength(n \div 65536)
    ELSE 1 + BitLength(n \div 2)

\* an integer a >= 0 below 2^63 as the nearest double, ties to even: a
\* double holds 53 significant bits
RoundNat53(a) ==
    LET high == IF a[1] < 0 THEN a[3] - 1 ELSE a[3]
        bits == IF high = 0 THEN 0 ELSE 32 + BitLength(high)
        step == IF bits > 53 THEN Pow2(bits - 53) ELSE 1
        r == a[1] % step
        even == (a[1] \div step) % 2 = 0
    IN IF r = 0 THEN a
       ELSE IF 2 * r < step \/ (2 * r = step /\ even) THEN NumAdd(a, Num(-r))
       ELSE NumAdd(a, Num(step - r))

\* an integer as the nearest double
Round53(a) == IF NumSign(a) < 0 THEN NumNeg(RoundNat53(NumNeg(a))) ELSE RoundNat53(a)

\* a * b in double arithmetic: of two 32-bit integers, or of two numbers
\* whose exact product is a double that the integers of the model hold
NumMul(a, b) ==
    IF IsNaN(a) \/ IsNaN(b) THEN NaN
    ELSE IF a[2] = 1 /\ b[2] = 1 /\ a[3] = 0 /\ b[3] = 0 THEN Round53(IntMul(a[1], b[1]))
    ELSE IF a[3] = 0 /\ b[3] = 0 THEN NormQ(a[1] * b[1], a[2] * b[2], 0)
    ELSE IF b = Num(1) THEN a
    ELSE IF a = Num(1) THEN b
    ELSE IF a = Num(0) \/ b = Num(0) THEN Num(0)
    ELSE NaN

\* a / b for b # 0 (the evaluator never divides by zero)
NumDiv(a, b) ==
    IF IsNaN(a) \/ IsNaN(b) THEN NaN
    ELSE IF b = Num(1) THEN a
    ELSE IF b = Num(-1) THEN NumNeg(a)
    ELSE IF b[1] > 0 THEN NormQ(a[1] * b[2], a[2] * b[1], 0)
    ELSE NormQ(-(a[1] * b[2]), a[2] * (-b[1]), 0)

\* the remainder of two 32-bit integers, b # 0, with the sign of a
IntRem(a, b) ==
    IF b = MinInt32 THEN (IF a = MinInt32 THEN 0 ELSE a)
    ELSE LET r == a % Abs(b)
         IN IF a < 0 /\ r # 0 THEN r - Abs(b) ELSE r

\* JavaScript's %: the remainder has the sign of the dividend, x % 0 is NaN
NumMod(a, b) ==
    IF IsNaN(a) \/ IsNaN(b) \/ b = Num(0) THEN NaN
    ELSE IF a[2] = 1 /\ b[2] = 1 /\ a[3] = 0 /\ b[3] = 0 THEN Num(IntRem(a[1], b[1]))
    ELSE LET q == NumDiv(a, b)
             t == Num(TruncQ(q[1], q[2]))
         IN NumSub(a, NumMul(t, b))

\* a bitwise operator on two bytes
RECURSIVE BitOp8(_, _, _)
BitOp8(op, a, b) ==
    IF a = 0 /\ b = 0 THEN 0
    ELSE LET x == a % 2 = 1
             y == b % 2 = 1
             r == CASE op = "&" -> x /\ y
                    [] op = "|" -> x \/ y
                    [] op = "^" -> x # y
         IN 2 * BitOp8(op, a \div 2, b \div 2) + (IF r THEN 1 ELSE 0)

\* bitwise operators on 32-bit two's-complement integers, byte by byte
BitOp(op, a, b) ==
    LET r3 == BitOp8(op, (a \div 16777216) % 256, (b \div 16777216) % 256)
        r2 == BitOp8(op, (a \div 65536) % 256, (b \div 65536) % 256)
        r1 == BitOp8(op, (a \div 256) % 256, (b \div 256) % 256)
        r0 == BitOp8(op, a % 256, b % 256)
    IN (IF r3 >= 128 THEN r3 - 256 ELSE r3) * 16777216 + r2 * 65536 + r1 * 256 + r0

\* a << n for 0 <= n <= 31: the low 32 - n bits of a, as a signed integer,
\* times 2^n
ShiftLeft(a, n) ==
    IF n = 0 THEN a
    ELSE IF n = 31 THEN (IF a % 2 = 1 THEN MinInt32 ELSE 0)
    ELSE LET H == Pow2(31 - n)
             r == a % H
         IN (IF (a \div H) % 2 = 1 THEN r - H ELSE r) * Pow2(n)

\* a >> n for 0 <= n <= 31, sign-propagating
ShiftRight(a, n) ==
    IF n = 31 THEN (IF a < 0 THEN -1 ELSE 0) ELSE a \div Pow2(n)

\* Number.prototype.toString for the numbers the model prints
Digits == <<"0", "1", "2", "3", "4", "5", "6", "7", "8", "9">>

RECURSIVE NatToString(_)
NatToString(n) ==
    IF n < 10 THEN Digits[n + 1] ELSE NatToString(n \div 10) \o Digits[(n % 10) + 1]

RECURSIVE FracToString(_, _)
FracToString(r, d) ==
    IF r = 0 THEN "" ELSE Digits[((r * 10) \div d) + 1] \o FracToString((r * 10) % d, d)

NumToString(a) ==
    IF IsNaN(a) THEN "NaN"
    ELSE IF a = Num(MinInt32) THEN "-2147483648"
    ELSE LET n == Abs(a[1])
         IN (IF a[1] < 0 THEN "-" ELSE "")
                \o NatToString(n \div a[2])
                \o (IF a[2] = 1 THEN "" ELSE "." \o FracToString(n % a[2], a[2]))

(***************************************************************************)
(* Runtime values (values.ts).  Objects, arrays and native wrappers are    *)
(* JavaScript objects with identity: a value of those kinds is a           *)
(* reference into the heap.  A handle's ref is a heap reference, 0 = null. *)
(***************************************************************************)
\* an Int that keeps the number as it is
INT_noWrap(value) == [value |-> value, kind |-> "int"]

INT(value) == [value |-> ToInt32(value), kind |-> "int"]
FLOAT(value) == [value |-> value, kind |-> "float"]
BOOL(value) == [value |-> value, kind |-> "bool"]
STRING_VAL(value) == [value |-> value, kind |-> "string"]
NULL_VAL == [kind |-> "null"]
VOID_VAL == [kind |-> "void"]
HANDLE(ref) == [kind |-> "handle", ref |-> ref]
\* a reference to a heap cell, as the value the cell's kind says
RefVal(h, ref) == [kind |-> h[ref].kind, ref |-> ref]
\* JavaScript's undefined, where the code can produce it (a missing argument)
UNDEFINED == [kind |-> "undefined"]

\* ARRAY(elements): a new ArrayValue; <<heap', value>>
ARRAY(h, elements) ==
    <<Append(h, [kind |-> "array", elements |-> elements, props |-> [n \in {} |-> 0]]),
      [kind |-> "array", ref |-> Len(h) + 1]>>

\* newObject(typeName): a new ObjectValue with no fields; <<heap', ref>>
newObject(h, typeName) ==
    <<Append(h, [kind |-> "object", typeName |-> typeName,
                 fields |-> [n \in {} |-> VOID_VAL]]),
      Len(h) + 1>>

isTruthy(val) ==
    CASE val.kind = "bool" -> val.value
      [] val.kind = "int" -> ~NumEq(val.value, Num(0))
      [] val.kind = "float" -> ~NumEq(val.value, Num(0))
      [] val.kind = "string" -> Len(val.value) > 0
      [] val.kind = "null" -> FALSE
      [] val.kind = "handle" -> val.ref # 0
      [] val.kind = "void" -> FALSE
      [] val.kind = "array" -> TRUE
      [] OTHER -> TRUE

\* asNumber throws a plain Error on every other kind
IsNumeric(val) == val.kind \in {"int", "float", "bool"}
asNumber(val) ==
    CASE val.kind = "int" -> val.value
      [] val.kind = "float" -> val.value
      [] val.kind = "bool" -> IF val.value THEN Num(1) ELSE Num(0)

\* an equality that compares values only and never references
isEqual_valuesOnly(a, b) ==
    IF a.kind \in {"int", "float"} /\ b.kind \in {"int", "float"}
        THEN NumEq(asNumber(a), asNumber(b))
    ELSE IF a.kind = b.kind /\ a.kind \in {"string", "bool"} THEN a.value = b.value
    ELSE a.kind = "null" /\ b.kind = "null"

\* an equality for which a handle without referent is null
isEqual_nullHandle(a, b) ==
    LET absent(x) == x.kind = "null" \/ (x.kind = "handle" /\ x.ref = 0)
    IN IF absent(a) /\ absent(b) THEN TRUE
       ELSE IF absent(a) \/ absent(b) THEN FALSE
       ELSE IF a.kind = "handle" /\ b.kind = "handle" THEN a.ref = b.ref
       ELSE IF a.kind \in {"int", "float"} /\ b.kind \in {"int", "float"}
           THEN NumEq(asNumber(a), asNumber(b))
       ELSE IF a.kind = "string" /\ b.kind = "string" THEN a.value = b.value
       ELSE IF a.kind = "bool" /\ b.kind = "bool" THEN a.value = b.value
       ELSE IF a.kind = "object" /\ b.kind = "object" THEN a.ref = b.ref
       ELSE FALSE

isEqual(a, b) ==
    IF a.kind = "null" /\ b.kind = "null" THEN TRUE
    ELSE IF a.kind = "null" \/ b.kind = "null" THEN FALSE
    ELSE IF a.kind = "handle" /\ b.kind = "handle" THEN a.ref = b.ref
    ELSE IF a.kind \in {"int", "float"} /\ b.kind \in {"int", "float"}
        THEN NumEq(asNumber(a), asNumber(b))
    ELSE IF a.kind = "string" /\ b.kind = "string" THEN a.value = b.value
    ELSE IF a.kind = "bool" /\ b.kind = "bool" THEN a.value = b.value
    ELSE IF a.kind = "object" /\ b.kind = "object" THEN a.ref = b.ref
    ELSE FALSE

(***************************************************************************)
(* Host values, as far as wrapNative tells them apart.                     *)
(***************************************************************************)
HNull == [t |-> "null"]
HUndefined == [t |-> "undefined"]
HNum(v) == [t |-> "number", v |-> v]
HBool(v) == [t |-> "boolean", v |-> v]
HStr(v) == [t |-> "string", v |-> v]
HArr(v) == [t |-> "array", v |-> v]
\* a host object that is neither an array nor a function
HObj(id) == [t |-> "object", id |-> id]
\* a script value handed to the host as it is (unwrap of an ObjectValue)
HScript(v) == [t |-> "script", v |-> v]

\* a host number: typeof val === "number"
wrapNumber_allInt(v) == INT(v)

wrapNumber(v) == IF IsInteger(v) THEN INT(v) ELSE FLOAT(v)

RECURSIVE wrapNative(_, _)
RECURSIVE wrapAll(_, _, _)
\* val.map(v => this.wrapNative(v)), threading the heap; <<heap', elements>>
wrapAll(h, vals, acc) ==
    IF vals = <<>> THEN <<h, acc>>
    ELSE LET w == wrapNative(h, Head(vals))
         IN wrapAll(w[1], Tail(vals), Append(acc, w[2]))

\* wrapNative(val): <<heap', value>>
wrapNative(h, val) ==
    CASE val.t \in {"null", "undefined"} -> <<h, NULL_VAL>>
      [] val.t = "number" ->
            <<h, wrapNumber(val.v)>>
      [] val.t = "boolean" -> <<h, BOOL(val.v)>>
      [] val.t = "string" -> <<h, STRING_VAL(val.v)>>
      [] val.t = "array" ->
            LET w == wrapAll(h, val.v, <<>>) IN ARRAY(w[1], w[2])
      [] val.t = "object" ->
            <<Append(h, [kind |-> "native", typeName |-> "Object", native |-> val.id]),
              [kind |-> "native", ref |-> Len(h) + 1]>>
      [] OTHER -> <<h, NULL_VAL>>

RECURSIVE unwrap(_, _)
unwrap(h, val) ==
    CASE val.kind = "int" -> HNum(val.value)
      [] val.kind = "float" -> HNum(val.value)
      [] val.kind = "bool" -> HBool(val.value)
      [] val.kind = "string" -> HStr(val.value)
      [] val.kind = "null" -> HNull
      [] val.kind = "void" -> HUndefined
      [] val.kind = "handle" ->
            IF val.ref = 0 THEN HNull
            ELSE IF h[val.ref].kind = "native" THEN HObj(h[val.ref].native)
            ELSE HScript(RefVal(h, val.ref))
      [] val.kind = "object" -> HScript(val)
      [] val.kind = "native" -> HObj(h[val.ref].native)
      [] val.kind = "array" ->
            HArr([i \in 1..Len(h[val.ref].elements) |-> unwrap(h, h[val.ref].elements[i])])
      [] OTHER -> HNull

(***************************************************************************)
(* The interpreter's state while an operation runs: the heap, the          *)
(* Environment objects (envs[1] is the global one, the others are the      *)
(* scopes of blocks, loops and calls), the class table and the host's log. *)
(* Every evaluation step returns [sig, v, m]: how it ended ("ok", or what  *)
(* was thrown: "Return", "Break", "Continue", "RuntimeError", "Error",     *)
(* "TypeError"), the value (the message, for an error) and the state.      *)
(***************************************************************************)
EmptyMap == [n \in {} |-> VOID_VAL]
Put(f, k, v) == [x \in DOMAIN f \cup {k} |-> IF x = k THEN v ELSE f[x]]
GlobalEnv == 1

Ok(v, m) == [v |-> v, m |-> m, sig |-> "ok"]
Throw(sig, v, m) == [v |-> v, m |-> m, sig |-> sig]

\* r, then K: an evaluation that threw is the outcome of the one that made
\* it; one that ended normally is handed to what follows
Then(r, K(_)) == IF r.sig # "ok" THEN r ELSE K(r)

\* const x = ...; K: x is evaluated once, however it ended
With(x, K(_)) == K(x)
RuntimeError(msg, m) == Throw("RuntimeError", msg, m)
\* asNumber's  throw new Error(`Cannot convert ...`)
ConvertError(m) == Throw("Error", "Cannot convert to number", m)
\* JavaScript's own TypeError, reading a property of undefined
TypeError(m) == Throw("TypeError", "Cannot read properties of undefined", m)

NativeFn(name, fn) == [kind |-> "native_function", name |-> name, fn |-> fn]
Function(name, decl, thisVal) ==
    [kind |-> "function", name |-> name, decl |-> decl, thisVal |-> thisVal]

(***************************************************************************)
(* Environment (environment.ts)                                            *)
(***************************************************************************)
RECURSIVE has(_, _, _)
has(m, env, name) ==
    IF name \in DOMAIN m.envs[env].vars THEN TRUE
    ELSE IF m.envs[env].parent # 0 THEN has(m, m.envs[env].parent, name)
    ELSE FALSE

RECURSIVE get(_, _, _)
get(m, env, name) ==
    IF name \in DOMAIN m.envs[env].vars THEN Ok(m.envs[env].vars[name], m)
    ELSE IF m.envs[env].parent # 0 THEN get(m, m.envs[env].parent, name)
    ELSE RuntimeError("Undefined variable", m)

define(m, env, name, value) ==
    [m EXCEPT !.envs[env].vars = Put(@, name, value)]

\* a set that always binds in the scope it is called on
set_local(m, env, name, value) == define(m, env, name, value)

RECURSIVE set(_, _, _, _)
set(m, env, name, value) ==
    IF name \in DOMAIN m.envs[env].vars THEN define(m, env, name, value)
    ELSE IF m.envs[env].parent # 0 /\ has(m, m.envs[env].parent, name)
        THEN set(m, m.envs[env].parent, name, value)
    ELSE define(m, env, name, value)

\* child(): <<m', the new Environment>>
child(m, env) ==
    <<[m EXCEPT !.envs = Append(@, [vars |-> EmptyMap, parent |-> env])],
      Len(m.envs) + 1>>

(***************************************************************************)
(* How a bare identifier is resolved.  The interpreter (m.direct = FALSE)  *)
(* resolves it in the environment chain, where a method's frame holds a    *)
(* copy of every field of its object.  The reference semantics that the    *)
(* field snapshot is compared against (m.direct = TRUE) has no copies: an  *)
(* identifier that names a field of "this" is that field of the object.    *)
(***************************************************************************)
isFieldOfThis(m, env, name) ==
    /\ m.direct
    /\ has(m, env, "this")
    /\ LET self == get(m, env, "this").v
       IN self.kind = "object" /\ name \in DOMAIN m.heap[self.ref].fields

resolveHas(m, env, name) == isFieldOfThis(m, env, name) \/ has(m, env, name)

resolveGet(m, env, name) ==
    IF isFieldOfThis(m, env, name)
        THEN Ok(m.heap[get(m, env, "this").v.ref].fields[name], m)
    ELSE get(m, env, name)

resolveSet(m, env, name, value) ==
    IF isFieldOfThis(m, env, name)
        THEN [m EXCEPT !.heap[get(m, env, "this").v.ref].fields[name] = value]
    ELSE set(m, env, name, value)

(***************************************************************************)
(* AST nodes (ast.ts), without the line numbers.  An optional child that   *)
(* is absent is None.                                                      *)
(***************************************************************************)
None == [kind |-> "None"]
TypeRef(name, isHandle, templateArg) ==
    [name |-> name, isHandle |-> isHandle, templateArg |-> templateArg]
Type(name) == TypeRef(name, FALSE, None)
HandleType(name) == TypeRef(name, TRUE, None)
ArrayType(name) == TypeRef("array", FALSE, Type(name))

VarDecl(typeRef, name, initializer) ==
    [kind |-> "VarDecl", name |-> name, typeRef |-> typeRef,
     initializer |-> initializer, arraySizeInit |-> None]
ArrayDecl(typeRef, name, arraySizeInit) ==
    [kind |-> "VarDecl", name |-> name, typeRef |-> typeRef,
     initializer |-> None, arraySizeInit |-> arraySizeInit]
Param(typeRef, name) == [name |-> name, typeRef |-> typeRef]
Block(body) == [kind |-> "Block", body |-> body]
FuncDecl(returnType, name, params, body) ==
    [kind |-> "FuncDecl", name |-> name, body |-> Block(body),
     returnType |-> returnType, params |-> params]
ClassDecl(name, members) == [kind |-> "ClassDecl", name |-> name, members |-> members]

ExprStmt(expr) == [kind |-> "ExprStmt", expr |-> expr]
IfStmt(condition, then, else) ==
    [kind |-> "IfStmt", condition |-> condition, then |-> then, else |-> else]
ForStmt(init, condition, update, body) ==
    [kind |-> "ForStmt", body |-> body, condition |-> condition,
     init |-> init, update |-> update]
WhileStmt(condition, body) == [kind |-> "WhileStmt", body |-> body, condition |-> condition]
DoWhileStmt(body, condition) == [kind |-> "DoWhileStmt", body |-> body, condition |-> condition]
ReturnStmt(value) == [value |-> value, kind |-> "ReturnStmt"]
BreakStmt == [kind |-> "BreakStmt"]
ContinueStmt == [kind |-> "ContinueStmt"]
SwitchCase(value, body) == [value |-> value, body |-> body]
SwitchStmt(expr, cases) == [kind |-> "SwitchStmt", expr |-> expr, cases |-> cases]

IntLiteral(i) == [value |-> Num(i), kind |-> "IntLiteral"]
FloatLiteral(v) == [value |-> v, kind |-> "FloatLiteral"]
StringLiteral(v) == [value |-> v, kind |-> "StringLiteral"]
BoolLiteral(v) == [value |-> v, kind |-> "BoolLiteral"]
NullLiteral == [kind |-> "NullLiteral"]
Identifier(name) == [kind |-> "Identifier", name |-> name]
AssignExpr(target, op, value) ==
    [op |-> op, value |-> value, kind |-> "AssignExpr", target |-> target]
HandleAssignExpr(target, value) ==
    [value |-> value, kind |-> "HandleAssignExpr", target |-> target]
BinaryExpr(left, op, right) ==
    [op |-> op, kind |-> "BinaryExpr", left |-> left, right |-> right]
UnaryExpr(op, operand, prefix) ==
    [op |-> op, kind |-> "UnaryExpr", operand |-> operand, prefix |-> prefix]
CallExpr(callee, args) == [kind |-> "CallExpr", callee |-> callee, args |-> args]
MemberExpr(object, member) == [kind |-> "MemberExpr", object |-> object, member |-> member]
IndexExpr(object, index) == [kind |-> "IndexExpr", object |-> object, index |-> index]
NewExpr(typeName, args) == [kind |-> "NewExpr", typeName |-> typeName, args |-> args]
CastExpr(targetType, expr) == [kind |-> "CastExpr", expr |-> expr, targetType |-> targetType]
TernaryExpr(condition, then, else) ==
    [kind |-> "TernaryExpr", condition |-> condition, then |-> then, else |-> else]

(***************************************************************************)
(* Helpers of the evaluator (interpreter.ts, values.ts)                    *)
(***************************************************************************)
RECURSIVE stringify(_, _)
RECURSIVE joinElements(_, _, _)
\* Array.prototype.toString of the stringified elements
joinElements(h, elements, i) ==
    IF i > Len(elements) THEN ""
    ELSE (IF i > 1 THEN "," ELSE "") \o stringify(h, elements[i])
            \o joinElements(h, elements, i + 1)

stringify(h, val) ==
    CASE val.kind \in {"int", "float"} -> NumToString(val.value)
      [] val.kind = "bool" -> IF val.value THEN "true" ELSE "false"
      [] val.kind = "string" -> val.value
      [] val.kind = "null" -> "null"
      [] val.kind = "void" -> ""
      [] val.kind = "handle" ->
            IF val.ref = 0 THEN "null" ELSE "[" \o h[val.ref].typeName \o " handle]"
      [] val.kind \in {"object", "native"} -> "[" \o h[val.ref].typeName \o "]"
      [] val.kind = "array" -> "[" \o joinElements(h, h[val.ref].elements, 1) \o "]"
      [] val.kind = "function" -> "[function " \o val.name \o "]"
      [] val.kind = "native_function" -> "[native " \o val.name \o "]"

makeNumeric(ref, value) == IF ref.kind = "float" THEN FLOAT(value) ELSE INT(value)

IntTypeNames == {"int", "uint", "int8", "int16", "int64", "uint8", "uint16", "uint64"}

\* defaultValue(typeRef): <<heap', value>>
defaultValue(h, typeRef) ==
    IF typeRef.isHandle THEN <<h, HANDLE(0)>>
    ELSE IF typeRef.name = "array" THEN ARRAY(h, <<>>)
    ELSE IF typeRef.name \in IntTypeNames THEN <<h, INT(Num(0))>>
    ELSE IF typeRef.name \in {"float", "double"} THEN <<h, FLOAT(Num(0))>>
    ELSE IF typeRef.name = "bool" THEN <<h, BOOL(FALSE)>>
    ELSE IF typeRef.name = "string" THEN <<h, STRING_VAL("")>>
    ELSE IF typeRef.name = "void" THEN <<h, VOID_VAL>>
    ELSE <<h, HANDLE(0)>>

\* x ?? INT(0)
OrInt0(x) == IF x.kind = "undefined" THEN INT(Num(0)) ELSE x

IsIndex(i) == IsInteger(i) /\ i[3] = 0 /\ i[1] >= 0

\* elements[i] of a JavaScript array, for any number i
ArrayLoad(cell, i) ==
    IF IsIndex(i) /\ i[1] < Len(cell.elements) THEN cell.elements[i[1] + 1]
    ELSE IF i \in DOMAIN cell.props THEN cell.props[i]
    ELSE UNDEFINED

\* elements[i] = v of a JavaScript array: past the end the array grows
\* (with holes), any other key becomes a property and leaves the length
ArrayStore(cell, i, v) ==
    IF IsIndex(i) /\ i[1] < Len(cell.elements)
        THEN [cell EXCEPT !.elements[i[1] + 1] = v]
    ELSE IF IsIndex(i)
        THEN [cell EXCEPT !.elements =
                @ \o [j \in 1..(i[1] - Len(@)) |-> UNDEFINED] \o <<v>>]
    ELSE [cell EXCEPT !.props = Put(@, i, v)]

\* l / r on JavaScript numbers without the guard: a division by zero gives
\* no finite number
divide_unguarded(l, r) == IF r # Num(0) THEN NumDiv(l, r) ELSE NaN

\* r !== 0 ? l / r : 0
divide(l, r) == IF r # Num(0) THEN NumDiv(l, r) ELSE Num(0)

\* the compound operators of evalAssign's computeValue: [sig, v]
computeValue(op, current, value, m) ==
    IF op = "=" THEN Ok(value, m)
    ELSE IF current.kind = "undefined" \/ value.kind = "undefined" THEN TypeError(m)
    ELSE IF ~IsNumeric(current) \/ ~IsNumeric(value) THEN ConvertError(m)
    ELSE LET l == asNumber(current)
             r == asNumber(value)
         IN CASE op = "+=" -> Ok(makeNumeric(current, NumAdd(l, r)), m)
              [] op = "-=" -> Ok(makeNumeric(current, NumSub(l, r)), m)
              [] op = "*=" -> Ok(makeNumeric(current, NumMul(l, r)), m)
              [] op = "/=" ->
                    Ok(makeNumeric(current, divide(l, r)), m)
              [] op = "%=" -> Ok(makeNumeric(current, NumMod(l, r)), m)
              [] op \in {"&=", "|=", "^="} ->
                    Ok(INT(Num(BitOp(IF op = "&=" THEN "&" ELSE IF op = "|=" THEN "|" ELSE "^",
                                     ToInt32_trunc(l), ToInt32_trunc(r)))), m)
              [] OTHER -> RuntimeError("Unknown op", m)

\* getFields(obj): the heap reference of the object whose fields are meant
getFields(obj, m) ==
    IF obj.kind = "object" THEN Ok(obj.ref, m)
    ELSE IF obj.kind = "handle" /\ obj.ref = 0
        THEN RuntimeError("Null handle field access", m)
    ELSE IF obj.kind = "handle" /\ m.heap[obj.ref].kind = "object" THEN Ok(obj.ref, m)
    ELSE RuntimeError("Cannot get fields", m)

\* the arithmetic, bitwise and comparison operators of evalBinary
binaryOp(op, left, right, m) ==
    IF op = "+" /\ (left.kind = "string" \/ right.kind = "string")
        THEN Ok(STRING_VAL(stringify(m.heap, left) \o stringify(m.heap, right)), m)
    ELSE IF op = "==" THEN Ok(BOOL(isEqual(left, right)), m)
    ELSE IF op = "!=" THEN Ok(BOOL(~isEqual(left, right)), m)
    ELSE IF op \notin {"+", "-", "*", "/", "%", "&", "|", "^", "<<", ">>", "<", ">", "<=", ">="}
        THEN RuntimeError("Unknown binary op", m)
    ELSE IF left.kind = "undefined" \/ right.kind = "undefined" THEN TypeError(m)
    ELSE IF ~IsNumeric(left) \/ ~IsNumeric(right) THEN ConvertError(m)
    ELSE LET l == asNumber(left)
             r == asNumber(right)
             li == ToInt32_trunc(l)
             ri == ToInt32_trunc(r)
         IN CASE op = "+" -> Ok(makeNumeric(left, NumAdd(l, r)), m)
              [] op = "-" -> Ok(makeNumeric(left, NumSub(l, r)), m)
              [] op = "*" -> Ok(makeNumeric(left, NumMul(l, r)), m)
              [] op = "/" ->
                    Ok(makeNumeric(left, divide(l, r)), m)
              [] op = "%" -> Ok(makeNumeric(left, NumMod(l, r)), m)
              [] op \in {"&", "|", "^"} -> Ok(INT(Num(BitOp(op, li, ri))), m)
              [] op = "<<" -> Ok(INT(Num(ShiftLeft(li, ri % 32))), m)
              [] op = ">>" -> Ok(INT(Num(ShiftRight(li, ri % 32))), m)
              [] op = "<" -> Ok(BOOL(NumLess(l, r)), m)
              [] op = ">" -> Ok(BOOL(NumLess(r, l)), m)
              [] op = "<=" -> Ok(BOOL(NumLess(l, r) \/ NumEq(l, r)), m)
              [] op = ">=" -> Ok(BOOL(NumLess(r, l) \/ NumEq(l, r)), m)

(***************************************************************************)
(* The evaluator (interpreter.ts)                                          *)
(***************************************************************************)
\* evalExpr, execStmt and callValue call one another through "this": each
\* this.evalExpr(...), this.execStmt(...), this.callValue(...) of the source is
\* a call of the interpreter, which is defined once all three are.
RECURSIVE interpreter(_, _, _, _, _)
this_evalExpr(expr, env, m) == interpreter("evalExpr", expr, env, 0, m)
this_execStmt(stmt, env, m) == interpreter("execStmt", stmt, env, 0, m)
this_callValue(val, args, thisVal, m) == interpreter("callValue", val, args, thisVal, m)

\* args.map(a => this.evalExpr(a, env)): left to right, v is the list
RECURSIVE evalArgs(_, _, _, _)
evalArgs(args, env, m, acc) ==
    IF args = <<>> THEN Ok(acc, m)
    ELSE Then(this_evalExpr(Head(args), env, m), LAMBDA a :
            evalArgs(Tail(args), env, a.m, Append(acc, a.v)))

\* the handle a right-hand side is coerced to
toHandle(rhs) ==
    IF rhs.kind = "handle" THEN rhs
    ELSE IF rhs.kind \in {"object", "native"} THEN HANDLE(rhs.ref)
    ELSE HANDLE(0)

\* assignTo(target, env, getValue): getValue is computeValue(op, _, value)
assignTo(target, env, m, op, value) ==
    CASE target.kind = "Identifier" ->
            LET current == IF resolveHas(m, env, target.name)
                               THEN resolveGet(m, env, target.name).v ELSE INT(Num(0))
            IN Then(computeValue(op, current, value, m), LAMBDA nv :
                    Ok(VOID_VAL, resolveSet(m, env, target.name, nv.v)))
      [] target.kind = "MemberExpr" ->
            Then(this_evalExpr(target.object, env, m), LAMBDA obj :
            Then(getFields(obj.v, obj.m), LAMBDA fields :
                LET f == obj.m.heap[fields.v].fields
                    current == IF target.member \in DOMAIN f
                                   THEN f[target.member] ELSE INT(Num(0))
                IN Then(computeValue(op, current, value, obj.m), LAMBDA nv :
                        Ok(VOID_VAL,
                           [obj.m EXCEPT !.heap[fields.v].fields =
                                Put(@, target.member, nv.v)]))))
      [] target.kind = "IndexExpr" ->
            Then(this_evalExpr(target.object, env, m), LAMBDA obj :
            Then(this_evalExpr(target.index, env, obj.m), LAMBDA ix :
                IF ix.v.kind = "undefined" THEN TypeError(ix.m)
                ELSE IF ~IsNumeric(ix.v) THEN ConvertError(ix.m)
                ELSE IF obj.v.kind = "array" THEN
                    LET i == asNumber(ix.v)
                        cell == ix.m.heap[obj.v.ref]
                    IN Then(computeValue(op, OrInt0(ArrayLoad(cell, i)), value, ix.m),
                            LAMBDA nv :
                                Ok(VOID_VAL,
                                   [ix.m EXCEPT !.heap[obj.v.ref] = ArrayStore(@, i, nv.v)]))
                ELSE IF obj.v.kind = "native" THEN Throw("Unmodelled", "native index", ix.m)
                ELSE RuntimeError("Index assignment on non-array", ix.m)))
      [] OTHER -> RuntimeError("Invalid assignment target", m)

evalAssign(expr, env, m) ==
    Then(this_evalExpr(expr.value, env, m), LAMBDA value :
    Then(assignTo(expr.target, env, value.m, expr.op, value.v), LAMBDA a :
        Ok(value.v, a.m)))

evalHandleAssign(expr, env, m) ==
    Then(this_evalExpr(expr.value, env, m), LAMBDA rhs :
    Then(assignTo(expr.target, env, rhs.m, "=", toHandle(rhs.v)), LAMBDA a :
        Ok(toHandle(rhs.v), a.m)))

\* && and ||: whether the right operand is evaluated, given the left value
evalsRight_always(op, l) == TRUE

evalsRight(op, l) == IF op = "&&" THEN isTruthy(l) ELSE ~isTruthy(l)

evalBinary(expr, env, m) ==
    IF expr.op \in {"&&", "||"} THEN
        Then(this_evalExpr(expr.left, env, m), LAMBDA l :
            IF evalsRight(expr.op, l.v) THEN this_evalExpr(expr.right, env, l.m)
            ELSE Ok(BOOL(expr.op = "||"), l.m))
    ELSE
        Then(this_evalExpr(expr.left, env, m), LAMBDA left :
        Then(this_evalExpr(expr.right, env, left.m), LAMBDA right :
            binaryOp(expr.op, left.v, right.v, right.m)))

\* the value of ++x, --x (prefix) and of x++, x-- (postfix)
unaryResult_new(prefix, newVal, current) == newVal

unaryResult(prefix, newVal, current) == IF prefix THEN newVal ELSE current

\* ++ and --: the operand is evaluated to read the current value, and
\* assignTo evaluates it again to store the new one
evalIncDec_once(expr, env, m) ==
    Then(assignTo(expr.operand, env, m, "+=",
                  INT(IF expr.op = "++" THEN Num(1) ELSE Num(-1))), LAMBDA a :
        Ok(VOID_VAL, a.m))

evalIncDec(expr, env, m) ==
    Then(this_evalExpr(expr.operand, env, m), LAMBDA current :
        IF current.v.kind = "undefined" THEN TypeError(current.m)
        ELSE IF ~IsNumeric(current.v) THEN ConvertError(current.m)
        ELSE LET delta == IF expr.op = "++" THEN Num(1) ELSE Num(-1)
                 newVal == makeNumeric(current.v, NumAdd(asNumber(current.v), delta))
             IN Then(assignTo(expr.operand, env, current.m, "=", newVal), LAMBDA a :
                    Ok(unaryResult(expr.prefix, newVal, current.v), a.m)))

evalUnary(expr, env, m) ==
    IF expr.op \in {"++", "--"} THEN evalIncDec(expr, env, m)
    ELSE
        Then(this_evalExpr(expr.operand, env, m), LAMBDA val :
            CASE expr.op = "-" ->
                    IF ~IsNumeric(val.v) THEN ConvertError(val.m)
                    ELSE Ok(makeNumeric(val.v, NumNeg(asNumber(val.v))), val.m)
              [] expr.op = "!" -> Ok(BOOL(~isTruthy(val.v)), val.m)
              [] expr.op = "~" ->
                    IF ~IsNumeric(val.v) THEN ConvertError(val.m)
                    ELSE Ok(INT(NumSub(Num(-1), ToInt32(asNumber(val.v)))), val.m)
              [] expr.op = "@" -> Ok(toHandle(val.v), val.m)
              [] OTHER -> RuntimeError("Unknown unary op", val.m))

\* classDef.members.find(m => m.kind === "FuncDecl" && m.name === name), or None
findMethod(members, name) ==
    LET hits == {i \in 1..Len(members) :
                    members[i].kind = "FuncDecl" /\ members[i].name = name}
    IN IF hits = {} THEN None
       ELSE members[CHOOSE i \in hits : \A j \in hits : i <= j]

ArrayMethodNames ==
    {"size", "length", "empty", "push", "insertLast", "pop", "removeLast",
     "resize", "reserve", "insertAt", "removeAt", "find"}

arrayMethod(arr, name, m) ==
    IF name \in ArrayMethodNames
        THEN Ok(NativeFn(name, [ref |-> arr.ref, name |-> name, tag |-> "array"]), m)
    ELSE RuntimeError("No array method", m)

StringMethodNames ==
    {"len", "length", "empty", "toInt", "toFloat", "toUpper", "toLower",
     "getToken", "substr", "findFirst"}

stringMethod(str, name, m) ==
    IF name \in StringMethodNames
        THEN Ok(NativeFn(name, [s |-> str, name |-> name, tag |-> "string"]), m)
    ELSE RuntimeError("No string method", m)

RECURSIVE getMember(_, _, _)
getMember(obj, name, m) ==
    CASE obj.kind = "handle" ->
            IF obj.ref = 0 THEN RuntimeError("Null handle dereference", m)
            ELSE getMember(RefVal(m.heap, obj.ref), name, m)
      [] obj.kind = "object" ->
            LET cell == m.heap[obj.ref]
                method == IF cell.typeName \in DOMAIN m.classDefs
                              THEN findMethod(m.classDefs[cell.typeName].members, name)
                              ELSE None
            IN IF name \in DOMAIN cell.fields THEN Ok(cell.fields[name], m)
               ELSE IF method # None THEN Ok(Function(name, method, obj.ref), m)
               ELSE RuntimeError("No member", m)
      [] obj.kind = "array" -> arrayMethod(obj, name, m)
      [] obj.kind = "native" -> Throw("Unmodelled", "native member", m)
      [] obj.kind = "string" -> stringMethod(obj.value, name, m)
      [] OTHER -> RuntimeError("Cannot access member", m)

RECURSIVE callMethod(_, _, _, _)
callMethod(obj, name, args, m) ==
    IF obj.kind = "handle" THEN
        IF obj.ref = 0 THEN RuntimeError("Null handle method call", m)
        ELSE callMethod(RefVal(m.heap, obj.ref), name, args, m)
    ELSE Then(getMember(obj, name, m), LAMBDA member :
            IF obj.kind = "object" THEN this_callValue(member.v, args, obj.ref, member.m)
            ELSE this_callValue(member.v, args, 0, member.m))

evalCall(expr, env, m) ==
    Then(evalArgs(expr.args, env, m, <<>>), LAMBDA args :
        IF expr.callee.kind = "MemberExpr" THEN
            Then(this_evalExpr(expr.callee.object, env, args.m), LAMBDA obj :
                callMethod(obj.v, expr.callee.member, args.v, obj.m))
        ELSE Then(this_evalExpr(expr.callee, env, args.m), LAMBDA callee :
                this_callValue(callee.v, args.v, 0, callee.m)))

evalMember(expr, env, m) ==
    Then(this_evalExpr(expr.object, env, m), LAMBDA obj :
        getMember(obj.v, expr.member, obj.m))

\* the bounds check of evalIndex on an array of length n
inBounds_offByOne(i, n) == ~(NumLess(i, Num(0)) \/ NumLess(Num(n), i))

inBounds(i, n) == ~(NumLess(i, Num(0)) \/ NumLess(Num(n), i) \/ NumEq(Num(n), i))

evalIndex(expr, env, m) ==
    Then(this_evalExpr(expr.object, env, m), LAMBDA obj :
    Then(this_evalExpr(expr.index, env, obj.m), LAMBDA ix :
        IF ix.v.kind = "undefined" THEN TypeError(ix.m)
        ELSE IF ~IsNumeric(ix.v) THEN ConvertError(ix.m)
        ELSE IF obj.v.kind = "array" THEN
            LET i == asNumber(ix.v)
                cell == ix.m.heap[obj.v.ref]
            IN IF ~inBounds(i, Len(cell.elements))
                   THEN RuntimeError("Array index out of bounds", ix.m)
               ELSE Ok(ArrayLoad(cell, i), ix.m)
        ELSE IF obj.v.kind = "native"
                 \/ (obj.v.kind = "handle" /\ obj.v.ref # 0
                         /\ ix.m.heap[obj.v.ref].kind = "native")
            THEN Throw("Unmodelled", "native index", ix.m)
        ELSE RuntimeError("Index on non-indexable value", ix.m)))

RECURSIVE initFields(_, _, _, _)
initFields(members, i, obj, m) ==
    IF i > Len(members) THEN Ok(VOID_VAL, m)
    ELSE IF members[i].kind # "VarDecl" THEN initFields(members, i + 1, obj, m)
    ELSE IF members[i].initializer # None THEN
        Then(this_evalExpr(members[i].initializer, GlobalEnv, m), LAMBDA val :
            initFields(members, i + 1, obj,
                [val.m EXCEPT !.heap[obj].fields = Put(@, members[i].name, val.v)]))
    ELSE LET d == defaultValue(m.heap, members[i].typeRef)
         IN initFields(members, i + 1, obj,
                [m EXCEPT !.heap = [d[1] EXCEPT ![obj].fields = Put(@, members[i].name, d[2])]])

\* an instantiation that runs the constructor before the fields are set
instantiateClass_ctorFirst(name, args, m) ==
    IF name \notin DOMAIN m.classDefs THEN RuntimeError("Unknown class", m)
    ELSE LET classDef == m.classDefs[name]
             o == newObject(m.heap, name)
             obj == o[2]
             ctor == findMethod(classDef.members, name)
         IN Then(IF ctor = None THEN Ok(VOID_VAL, [m EXCEPT !.heap = o[1]])
                 ELSE this_callValue(Function(name, ctor, obj), args, obj,
                                     [m EXCEPT !.heap = o[1]]), LAMBDA c :
            Then(initFields(classDef.members, 1, obj, c.m), LAMBDA f :
                Ok([kind |-> "object", ref |-> obj], f.m)))

instantiateClass(name, args, m) ==
    IF name \notin DOMAIN m.classDefs THEN RuntimeError("Unknown class", m)
    ELSE LET classDef == m.classDefs[name]
             o == newObject(m.heap, name)
             obj == o[2]
             ctor == findMethod(classDef.members, name)
         IN Then(initFields(classDef.members, 1, obj, [m EXCEPT !.heap = o[1]]), LAMBDA f :
                IF ctor = None THEN Ok([kind |-> "object", ref |-> obj], f.m)
                ELSE Then(this_callValue(Function(name, ctor, obj), args, obj, f.m),
                          LAMBDA c : Ok([kind |-> "object", ref |-> obj], c.m)))

evalNew(expr, env, m) ==
    Then(evalArgs(expr.args, env, m, <<>>), LAMBDA args :
        instantiateClass(expr.typeName, args.v, args.m))

evalCast(expr, env, m) ==
    Then(this_evalExpr(expr.expr, env, m), LAMBDA val :
        LET name == expr.targetType.name
        IN IF name \in IntTypeNames \cup {"float", "double"} THEN
                IF val.v.kind = "undefined" THEN TypeError(val.m)
                ELSE IF ~IsNumeric(val.v) THEN ConvertError(val.m)
                ELSE IF name \in IntTypeNames THEN Ok(INT(asNumber(val.v)), val.m)
                ELSE Ok(FLOAT(asNumber(val.v)), val.m)
           ELSE IF name = "bool" THEN Ok(BOOL(isTruthy(val.v)), val.m)
           ELSE IF name = "string" THEN Ok(STRING_VAL(stringify(val.m.heap, val.v)), val.m)
           ELSE val)

evalExpr(expr, env, m) ==
    CASE expr.kind = "IntLiteral" -> Ok(INT(expr.value), m)
      [] expr.kind = "FloatLiteral" -> Ok(FLOAT(expr.value), m)
      [] expr.kind = "StringLiteral" -> Ok(STRING_VAL(expr.value), m)
      [] expr.kind = "BoolLiteral" -> Ok(BOOL(expr.value), m)
      [] expr.kind = "NullLiteral" -> Ok(NULL_VAL, m)
      [] expr.kind = "Identifier" -> resolveGet(m, env, expr.name)
      [] expr.kind = "AssignExpr" -> evalAssign(expr, env, m)
      [] expr.kind = "HandleAssignExpr" -> evalHandleAssign(expr, env, m)
      [] expr.kind = "BinaryExpr" -> evalBinary(expr, env, m)
      [] expr.kind = "UnaryExpr" -> evalUnary(expr, env, m)
      [] expr.kind = "CallExpr" -> evalCall(expr, env, m)
      [] expr.kind = "MemberExpr" -> evalMember(expr, env, m)
      [] expr.kind = "IndexExpr" -> evalIndex(expr, env, m)
      [] expr.kind = "NewExpr" -> evalNew(expr, env, m)
      [] expr.kind = "TernaryExpr" ->
            Then(this_evalExpr(expr.condition, env, m), LAMBDA c :
                IF isTruthy(c.v) THEN this_evalExpr(expr.then, env, c.m)
                ELSE this_evalExpr(expr.else, env, c.m))
      [] expr.kind = "CastExpr" -> evalCast(expr, env, m)
      [] OTHER -> RuntimeError("Unknown expression kind", m)

\* the i-th argument a native closure receives: undefined when missing
Arg(args, i) == IF i <= Len(args) THEN args[i] ELSE UNDEFINED

\* Array.prototype.splice's start position for a numeric argument
SpliceStart(i, len) ==
    LET t == IF IsNaN(i) THEN 0 ELSE ToInt32_trunc(<<i[1], i[2], 0>>)
    IN IF i[3] > 0 THEN len
       ELSE IF i[3] < 0 THEN 0
       ELSE IF t < 0 THEN (IF len + t < 0 THEN 0 ELSE len + t)
       ELSE IF t > len THEN len ELSE t

\* the index of the last element equal to val
findIndex_last(elements, val) ==
    LET hits == {i \in 1..Len(elements) : isEqual(elements[i], val)}
    IN IF hits = {} THEN -1 ELSE (CHOOSE i \in hits : \A j \in hits : i >= j) - 1

\* arr.elements.findIndex(el => isEqual(el, val))
findIndex(elements, val) ==
    LET hits == {i \in 1..Len(elements) : isEqual(elements[i], val)}
    IN IF hits = {} THEN -1 ELSE (CHOOSE i \in hits : \A j \in hits : i <= j) - 1

\* the closures arrayMethod returns, applied to args
arrayCall(name, ref, args, m) ==
    LET els == m.heap[ref].elements
        n == Len(els)
        a1 == Arg(args, 1)
        store(e) == [m EXCEPT !.heap[ref].elements = e]
    IN CASE name \in {"size", "length"} -> Ok(INT(Num(n)), m)
         [] name = "empty" -> Ok(BOOL(n = 0), m)
         [] name \in {"push", "insertLast"} -> Ok(VOID_VAL, store(Append(els, a1)))
         [] name \in {"pop", "removeLast"} ->
                Ok(VOID_VAL, IF n = 0 THEN m ELSE store(SubSeq(els, 1, n - 1)))
         [] name = "resize" ->
                IF a1.kind = "undefined" THEN TypeError(m)
                ELSE IF ~IsNumeric(a1) THEN ConvertError(m)
                ELSE LET newSize == asNumber(a1)
                     IN IF IsIndex(newSize)
                            THEN Ok(VOID_VAL,
                                    store([i \in 1..newSize[1] |->
                                            IF i <= n THEN els[i] ELSE INT(Num(0))]))
                        ELSE Throw("RangeError", "Invalid array length", m)
         [] name = "reserve" -> Ok(VOID_VAL, m)
         [] name = "insertAt" ->
                IF a1.kind = "undefined" THEN TypeError(m)
                ELSE IF ~IsNumeric(a1) THEN ConvertError(m)
                ELSE LET at == SpliceStart(asNumber(a1), n)
                     IN Ok(VOID_VAL,
                           store(SubSeq(els, 1, at) \o <<Arg(args, 2)>> \o SubSeq(els, at + 1, n)))
         [] name = "removeAt" ->
                IF a1.kind = "undefined" THEN TypeError(m)
                ELSE IF ~IsNumeric(a1) THEN ConvertError(m)
                ELSE LET at == SpliceStart(asNumber(a1), n)
                     IN Ok(VOID_VAL, store(SubSeq(els, 1, at) \o SubSeq(els, at + 2, n)))
         [] name = "find" ->
                IF a1.kind = "undefined" /\ n > 0 THEN TypeError(m)
                ELSE Ok(INT(Num(findIndex(els, a1))), m)

\* the closures stringMethod returns; the ones that look inside the string
\* (toInt, substr, ...) are outside the model
stringCall(name, str, args, m) ==
    CASE name \in {"len", "length"} -> Ok(INT(Num(Len(str))), m)
      [] name = "empty" -> Ok(BOOL(Len(str) = 0), m)
      [] OTHER -> Throw("Unmodelled", "string method", m)

NumFloor(a) == Num(a[1] \div a[2])

NumCeil(a) == Num(-((-a[1]) \div a[2]))

\* the natives of registerBuiltins that compute on numbers, and print;
\* rand, random, sqrt and pow are outside the model
builtinCall(name, args, m) ==
    LET x == Arg(args, 1)
        y == Arg(args, 2)
        two == name \in {"min", "max"}
    IN IF name = "print" THEN
            Ok(VOID_VAL,
               [m EXCEPT !.out = Append(@, <<"print",
                    [i \in 1..Len(args) |-> stringify(m.heap, args[i])]>>)])
       ELSE IF name \notin {"abs", "floor", "ceil", "min", "max",
                            "HEALTH_TO_INT", "ARMOR_TO_INT"}
            THEN Throw("Unmodelled", "builtin", m)
       ELSE IF x.kind = "undefined" THEN TypeError(m)
       ELSE IF ~IsNumeric(x) THEN ConvertError(m)
       ELSE IF two /\ y.kind = "undefined" THEN TypeError(m)
       ELSE IF two /\ ~IsNumeric(y) THEN ConvertError(m)
       ELSE LET a == asNumber(x)
            IN CASE name = "abs" ->
                        LET r == IF NumSign(a) < 0 THEN NumNeg(a) ELSE a
                        IN Ok(IF x.kind = "float" THEN FLOAT(r) ELSE INT(r), m)
                 [] name = "ceil" -> Ok(INT(NumCeil(a)), m)
                 [] two ->
                        LET b == asNumber(y)
                            r == IF (name = "min") = NumLess(a, b) THEN a ELSE b
                        IN Ok(IF x.kind = "float" \/ y.kind = "float"
                                  THEN FLOAT(r) ELSE INT(r), m)
                 [] OTHER -> Ok(INT(NumFloor(a)), m)

\* a native that logs nothing
hostCall_silent(name, args, m) == Ok(VOID_VAL, m)

\* a native the host registered: G_Print(msg) logs stringify(msg)
hostCall(name, args, m) ==
    IF Arg(args, 1).kind = "undefined" THEN TypeError(m)
    ELSE Ok(VOID_VAL, [m EXCEPT !.out = Append(@, <<name, stringify(m.heap, args[1])>>)])

\* val.fn(...args) of a NativeFunctionValue
callNative(fn, args, m) ==
    CASE fn.tag = "class" -> instantiateClass(fn.name, args, m)
      [] fn.tag = "array" -> arrayCall(fn.name, fn.ref, args, m)
      [] fn.tag = "string" -> stringCall(fn.name, fn.s, args, m)
      [] fn.tag = "builtin" -> builtinCall(fn.name, args, m)
      [] fn.tag = "host" -> hostCall(fn.name, args, m)
      [] OTHER -> Throw("Unmodelled", "native", m)

(***************************************************************************)
(* Statements                                                              *)
(***************************************************************************)
\* for (const stmt of body) this.execStmt(stmt, env)
RECURSIVE execStmts(_, _, _, _)
execStmts(body, i, env, m) ==
    IF i > Len(body) THEN Ok(VOID_VAL, m)
    ELSE Then(this_execStmt(body[i], env, m), LAMBDA r :
            execStmts(body, i + 1, env, r.m))

execBlock(block, env, m) == execStmts(block.body, 1, env, m)

\* Array.from({ length: size }, () => elementDefault)
ArrayFrom(size, elementDefault) ==
    LET n == IF IsNaN(size) \/ NumSign(size) < 0 THEN 0 ELSE ToInt32_trunc(size)
    IN [i \in 1..n |-> elementDefault]

\* a declaration that instantiates whether or not it declares a handle
instantiates_handlesToo(decl, m) == decl.typeRef.name \in DOMAIN m.classDefs

\* this.classDefs.has(decl.typeRef.name) && !decl.typeRef.isHandle
instantiates(decl, m) ==
    decl.typeRef.name \in DOMAIN m.classDefs /\ ~decl.typeRef.isHandle

initVarDecl(decl, env, m) ==
    IF decl.initializer # None THEN this_evalExpr(decl.initializer, env, m)
    ELSE IF decl.arraySizeInit # None THEN
        Then(this_evalExpr(decl.arraySizeInit, env, m), LAMBDA sz :
            IF sz.v.kind = "undefined" THEN TypeError(sz.m)
            ELSE IF ~IsNumeric(sz.v) THEN ConvertError(sz.m)
            ELSE LET d == IF decl.typeRef.templateArg # None
                              THEN defaultValue(sz.m.heap, decl.typeRef.templateArg)
                              ELSE <<sz.m.heap, INT(Num(0))>>
                     a == ARRAY(d[1], ArrayFrom(asNumber(sz.v), d[2]))
                 IN Ok(a[2], [sz.m EXCEPT !.heap = a[1]]))
    ELSE IF decl.typeRef.name = "array" THEN
        LET a == ARRAY(m.heap, <<>>) IN Ok(a[2], [m EXCEPT !.heap = a[1]])
    ELSE IF instantiates(decl, m) THEN instantiateClass(decl.typeRef.name, <<>>, m)
    ELSE LET d == defaultValue(m.heap, decl.typeRef)
         IN Ok(d[2], [m EXCEPT !.heap = d[1]])

execIf(stmt, env, m) ==
    Then(this_evalExpr(stmt.condition, env, m), LAMBDA c :
        IF isTruthy(c.v) THEN this_execStmt(stmt.then, env, c.m)
        ELSE IF stmt.else # None THEN this_execStmt(stmt.else, env, c.m)
        ELSE Ok(VOID_VAL, c.m))

\* what the try/catch around a loop body does with the way the body ended:
\* "break" leaves the loop, "next" goes on with what follows the try
\* statement in the loop, "throw" rethrows
forCatch_continueLeaves(sig) ==
    IF sig \in {"Break", "Continue"} THEN "break"
    ELSE IF sig = "ok" THEN "next"
    ELSE "throw"

forCatch(sig) ==
    IF sig = "Break" THEN "break"
    ELSE IF sig \in {"ok", "Continue"} THEN "next"
    ELSE "throw"

\* the while (true) of execFor
RECURSIVE forLoop(_, _, _)
forLoop(stmt, loopEnv, m) ==
    Then(IF stmt.condition # None
             THEN this_evalExpr(stmt.condition, loopEnv, m) ELSE Ok(BOOL(TRUE), m),
         LAMBDA c :
            IF ~isTruthy(c.v) THEN Ok(VOID_VAL, c.m)
            ELSE With(this_execStmt(stmt.body, loopEnv, c.m), LAMBDA b :
                    IF forCatch(b.sig) = "break" THEN Ok(VOID_VAL, b.m)
                    ELSE IF forCatch(b.sig) = "throw" THEN b
                    ELSE IF stmt.update = None THEN forLoop(stmt, loopEnv, b.m)
                    ELSE Then(this_evalExpr(stmt.update, loopEnv, b.m), LAMBDA u :
                            forLoop(stmt, loopEnv, u.m))))

execFor(stmt, env, m) ==
    LET c == child(m, env)
        loopEnv == c[2]
    IN Then(IF stmt.init = None THEN Ok(VOID_VAL, c[1])
            ELSE IF stmt.init.kind = "VarDecl" THEN
                Then(initVarDecl(stmt.init, loopEnv, c[1]), LAMBDA v :
                    Ok(VOID_VAL, define(v.m, loopEnv, stmt.init.name, v.v)))
            ELSE this_evalExpr(stmt.init.expr, loopEnv, c[1]),
            LAMBDA i : forLoop(stmt, loopEnv, i.m))

whileCatch(sig) ==
    IF sig = "Break" THEN "break"
    ELSE IF sig \in {"ok", "Continue"} THEN "next"
    ELSE "throw"

RECURSIVE execWhile(_, _, _)
execWhile(stmt, env, m) ==
    Then(this_evalExpr(stmt.condition, env, m), LAMBDA c :
        IF ~isTruthy(c.v) THEN Ok(VOID_VAL, c.m)
        ELSE With(this_execStmt(stmt.body, env, c.m), LAMBDA b :
                IF whileCatch(b.sig) = "break" THEN Ok(VOID_VAL, b.m)
                ELSE IF whileCatch(b.sig) = "throw" THEN b
                ELSE execWhile(stmt, env, b.m)))

RECURSIVE execDoWhile(_, _, _)
execDoWhile(stmt, env, m) ==
    With(this_execStmt(stmt.body, env, m), LAMBDA b :
        IF whileCatch(b.sig) = "break" THEN Ok(VOID_VAL, b.m)
        ELSE IF whileCatch(b.sig) = "throw" THEN b
        ELSE Then(this_evalExpr(stmt.condition, env, b.m), LAMBDA c :
                IF isTruthy(c.v) THEN execDoWhile(stmt, env, c.m)
                ELSE Ok(VOID_VAL, c.m)))

\* whether a case is entered: matched already (fall-through), a default
\* label, or a case value equal to the discriminant
caseMatches_noFallThrough(matched, isDefault, equal) == isDefault \/ equal

caseMatches(matched, isDefault, equal) == matched \/ isDefault \/ equal

\* whether the value expression of case c is evaluated: only while no case
\* has matched, and never for a default label
evaluatesCase_always(matched, c) == c.value # None

evaluatesCase(matched, c) == ~matched /\ c.value # None

\* the for (const c of stmt.cases) of execSwitch, from case i on
RECURSIVE switchCases(_, _, _, _, _, _)
switchCases(cases, i, matched, val, env, m) ==
    IF i > Len(cases) THEN Ok(VOID_VAL, m)
    ELSE Then(IF evaluatesCase(matched, cases[i])
                  THEN this_evalExpr(cases[i].value, env, m) ELSE Ok(VOID_VAL, m),
              LAMBDA e :
                IF ~caseMatches(matched, cases[i].value = None,
                                evaluatesCase(matched, cases[i]) /\ isEqual(val, e.v))
                    THEN switchCases(cases, i + 1, FALSE, val, env, e.m)
                ELSE With(execStmts(cases[i].body, 1, env, e.m), LAMBDA b :
                        IF b.sig = "Break" THEN Ok(VOID_VAL, b.m)
                        ELSE IF b.sig # "ok" THEN b
                        ELSE switchCases(cases, i + 1, TRUE, val, env, b.m)))

execSwitch(stmt, env, m) ==
    Then(this_evalExpr(stmt.expr, env, m), LAMBDA val :
        switchCases(stmt.cases, 1, FALSE, val.v, env, val.m))

execStmt(stmt, env, m) ==
    CASE stmt.kind = "Block" ->
            LET c == child(m, env) IN execBlock(stmt, c[2], c[1])
      [] stmt.kind = "VarDecl" ->
            Then(initVarDecl(stmt, env, m), LAMBDA v :
                Ok(VOID_VAL, define(v.m, env, stmt.name, v.v)))
      [] stmt.kind = "ExprStmt" ->
            Then(this_evalExpr(stmt.expr, env, m), LAMBDA v : Ok(VOID_VAL, v.m))
      [] stmt.kind = "IfStmt" -> execIf(stmt, env, m)
      [] stmt.kind = "ForStmt" -> execFor(stmt, env, m)
      [] stmt.kind = "WhileStmt" -> execWhile(stmt, env, m)
      [] stmt.kind = "DoWhileStmt" -> execDoWhile(stmt, env, m)
      [] stmt.kind = "ReturnStmt" ->
            IF stmt.value = None THEN Throw("Return", VOID_VAL, m)
            ELSE Then(this_evalExpr(stmt.value, env, m), LAMBDA v :
                    Throw("Return", v.v, v.m))
      [] stmt.kind = "BreakStmt" -> Throw("Break", VOID_VAL, m)
      [] stmt.kind = "ContinueStmt" -> Throw("Continue", VOID_VAL, m)
      [] stmt.kind = "SwitchStmt" -> execSwitch(stmt, env, m)
      [] OTHER -> RuntimeError("Unknown statement kind", m)

\* for (const [k, v] of self.fields) fnEnv.define(k, v)
RECURSIVE defineAll(_, _, _, _)
defineAll(m, env, fields, names) ==
    IF names = {} THEN m
    ELSE LET k == CHOOSE x \in names : TRUE
         IN defineAll(define(m, env, k, fields[k]), env, fields, names \ {k})

\* fnEnv gets "this" and, for a script object, a copy of each of its fields
bindThis(m, fnEnv, self) ==
    IF self = 0 THEN m
    ELSE IF m.heap[self].kind = "object" /\ ~m.direct
        THEN defineAll(define(m, fnEnv, "this", RefVal(m.heap, self)), fnEnv,
                       m.heap[self].fields, DOMAIN m.heap[self].fields)
    ELSE define(m, fnEnv, "this", RefVal(m.heap, self))

\* fnEnv.define(param.name, args[i] ?? this.defaultValue(param.typeRef))
RECURSIVE bindParams(_, _, _, _, _)
bindParams(m, fnEnv, params, args, i) ==
    IF i > Len(params) THEN m
    ELSE IF i <= Len(args) /\ args[i].kind # "undefined"
        THEN bindParams(define(m, fnEnv, params[i].name, args[i]), fnEnv, params, args, i + 1)
    ELSE LET d == defaultValue(m.heap, params[i].typeRef)
         IN bindParams(define([m EXCEPT !.heap = d[1]], fnEnv, params[i].name, d[2]),
                       fnEnv, params, args, i + 1)

\* the frame of a call: this and the receiver's fields are defined first,
\* the parameters after them
bindFrame_fieldsLast(m, fnEnv, self, params, args) ==
    bindThis(bindParams(m, fnEnv, params, args, 1), fnEnv, self)

bindFrame(m, fnEnv, self, params, args) ==
    bindParams(bindThis(m, fnEnv, self), fnEnv, params, args, 1)

RECURSIVE syncMembers(_, _, _, _, _)
syncMembers(m, obj, env, members, i) ==
    IF i > Len(members) THEN m
    ELSE IF members[i].kind = "VarDecl" /\ has(m, env, members[i].name)
        THEN syncMembers(
                [m EXCEPT !.heap[obj].fields =
                    Put(@, members[i].name, get(m, env, members[i].name).v)],
                obj, env, members, i + 1)
    ELSE syncMembers(m, obj, env, members, i + 1)

\* a syncFields that writes nothing back
syncFields_none(m, obj, env) == m

\* syncFields(obj, env, decl)
syncFields(m, obj, env) ==
    IF m.heap[obj].typeName \notin DOMAIN m.classDefs THEN m
    ELSE syncMembers(m, obj, env, m.classDefs[m.heap[obj].typeName].members, 1)

\* a scope for a call whose parent is the scope made last, the caller's
callScope_dynamic(m) == child(m, Len(m.envs))

\* const fnEnv = this.globals.child()
callScope(m) == child(m, GlobalEnv)

callValue(val, args, thisVal, m) ==
    IF val.kind = "native_function" THEN callNative(val.fn, args, m)
    ELSE IF val.kind = "function" THEN
        LET decl == val.decl
            c == callScope(m)
            fnEnv == c[2]
            self == IF thisVal # 0 THEN thisVal ELSE val.thisVal
            m1 == bindFrame(c[1], fnEnv, self, decl.params, args)
            isObj == self # 0 /\ m.heap[self].kind = "object" /\ ~m.direct
        IN With(execBlock(decl.body, fnEnv, m1), LAMBDA r :
                IF r.sig = "ok"
                    THEN Ok(VOID_VAL, IF isObj THEN syncFields(r.m, self, fnEnv) ELSE r.m)
                ELSE IF r.sig = "Return"
                    THEN Ok(r.v, IF isObj THEN syncFields(r.m, self, fnEnv) ELSE r.m)
                ELSE r)
    ELSE RuntimeError("Cannot call value of kind", m)

interpreter(method, a, b, c, m) ==
    CASE method = "evalExpr" -> evalExpr(a, b, m)
      [] method = "execStmt" -> execStmt(a, b, m)
      [] method = "callValue" -> callValue(a, b, c, m)

(***************************************************************************)
(* The engine after construction (bindings.ts): an Interpreter with empty  *)
(* class table, and the built-in natives bound in the globals.  A native's *)
(* fn is named by what it closes over.                                     *)
(***************************************************************************)
BuiltinNames ==
    {"rand", "random", "abs", "floor", "ceil", "sqrt", "pow", "min", "max",
     "String", "HEALTH_TO_INT", "ARMOR_TO_INT", "print"}

registerBuiltins ==
    [n \in BuiltinNames |->
        NativeFn(n, [name |-> n, tag |-> IF n = "String" THEN "factory" ELSE "builtin"])]

\* the interpreter between two operations of the host: only the global
\* environment is alive
Machine(direct) ==
    [classDefs |-> classDefs, heap |-> heap,
     out |-> out, envs |-> <<[vars |-> globals, parent |-> 0]>>, direct |-> direct]

\* the first loop of execute: classes and functions, in source order
RECURSIVE registerDecls(_, _, _)
registerDecls(body, i, m) ==
    IF i > Len(body) THEN m
    ELSE IF body[i].kind = "ClassDecl" THEN
        registerDecls(body, i + 1,
            define([m EXCEPT !.classDefs = Put(@, body[i].name, body[i])],
                   GlobalEnv, body[i].name,
                   NativeFn(body[i].name, [name |-> body[i].name, tag |-> "class"])))
    ELSE IF body[i].kind = "FuncDecl" THEN
        registerDecls(body, i + 1,
            define(m, GlobalEnv, body[i].name, Function(body[i].name, body[i], 0)))
    ELSE registerDecls(body, i + 1, m)

\* the second loop of execute: global variables, in source order
RECURSIVE initGlobals(_, _, _)
initGlobals(body, i, m) ==
    IF i > Len(body) THEN Ok(VOID_VAL, m)
    ELSE IF body[i].kind = "VarDecl" THEN
        Then(initVarDecl(body[i], GlobalEnv, m), LAMBDA v :
            initGlobals(body, i + 1, define(v.m, GlobalEnv, body[i].name, v.v)))
    ELSE initGlobals(body, i + 1, m)

\* one loop that registers and initialises each declaration where it stands
RECURSIVE execute_onePass(_, _, _)
execute_onePass(body, i, m) ==
    IF i > Len(body) THEN Ok(VOID_VAL, m)
    ELSE Then(initGlobals(<<body[i]>>, 1, registerDecls(<<body[i]>>, 1, m)), LAMBDA v :
            execute_onePass(body, i + 1, v.m))

\* execute(program), from declaration i on
execute(body, i, m) == initGlobals(body, i, registerDecls(body, i, m))

callFunction(name, args, m) ==
    Then(get(m, GlobalEnv, name), LAMBDA fn : this_callValue(fn.v, args, 0, m))

NoOp == [op |-> "none"]
Script(name, order) == [name |-> name, order |-> order]

EngineInit ==
    /\ globals = registerBuiltins
    /\ classDefs = EmptyMap
    /\ heap = <<>>
    /\ out = <<>>
    /\ phase = "new"
    /\ ncalls = 0
    /\ last = NoOp

(***************************************************************************)
(* Scripts the host loads, as the AST the parser hands to execute, and the *)
(* calls the host makes into each.  Shorthands for the nodes used often:   *)
(***************************************************************************)
Var(name) == Identifier(name)
Lit(i) == IntLiteral(i)
CallFn(name, args) == CallExpr(Identifier(name), args)
CallOn(object, member, args) == CallExpr(MemberExpr(object, member), args)
Do(expr) == ExprStmt(expr)
Assign(target, value) == ExprStmt(AssignExpr(target, "=", value))
PostInc(target) == UnaryExpr("++", target, FALSE)
Log(expr) == ExprStmt(CallFn("G_Print", <<expr>>))
Entry(name, args) == [name |-> name, args |-> args]
IntArgs(ns) == [i \in 1..Len(ns) |-> INT(Num(ns[i]))]

\* class TestClass { int int1lmao; TestClass(int initialValue) {
\*   int1lmao = initialValue; } void incrementIt() { int1lmao++; } }
TestClass ==
    ClassDecl("TestClass", <<
        VarDecl(Type("int"), "int1lmao", None),
        FuncDecl(None, "TestClass", <<Param(Type("int"), "initialValue")>>,
            <<Assign(Var("int1lmao"), Var("initialValue"))>>),
        FuncDecl(Type("void"), "incrementIt", <<>>,
            <<Do(PostInc(Var("int1lmao")))>>) >>)

NewTestClass ==
    VarDecl(Type("TestClass"), "testClass", NewExpr("TestClass", <<Var("initialValue")>>))
IncrementIt == Do(CallOn(Var("testClass"), "incrementIt", <<>>))
ReadIt == MemberExpr(Var("testClass"), "int1lmao")

\* void mainTest(int initialValue): three increments, each followed by
\* G_Print(testClass.int1lmao)
MainTest ==
    FuncDecl(Type("void"), "mainTest", <<Param(Type("int"), "initialValue")>>,
        <<NewTestClass, IncrementIt, Log(ReadIt), IncrementIt, Log(ReadIt),
          IncrementIt, Log(ReadIt)>>)

\* int main(int initialValue): three increments, return testClass.int1lmao
MainCounter ==
    FuncDecl(Type("int"), "main", <<Param(Type("int"), "initialValue")>>,
        <<NewTestClass, IncrementIt, IncrementIt, IncrementIt, ReturnStmt(ReadIt)>>)

\* int run(int initialValue, int k) { TestClass testClass = new
\*   TestClass(initialValue); for (int i = 0; i < k; i++)
\*   testClass.incrementIt(); return testClass.int1lmao; }
RunCounter ==
    FuncDecl(Type("int"), "run",
        <<Param(Type("int"), "initialValue"), Param(Type("int"), "k")>>,
        <<NewTestClass,
          ForStmt(VarDecl(Type("int"), "i", Lit(0)),
                  BinaryExpr(Var("i"), "<", Var("k")), PostInc(Var("i")),
                  IncrementIt),
          ReturnStmt(ReadIt)>>)

CounterProgram == <<TestClass, MainTest, MainCounter, RunCounter>>

MaxIncs == 3
CounterStarts == {12, 0, -3, MaxInt32 - 1}
CounterEntries ==
    {Entry(f, IntArgs(<<n>>)) : f \in {"main", "mainTest"}, n \in CounterStarts}
        \cup {Entry("run", IntArgs(<<n, k>>)) : n \in CounterStarts, k \in 0..MaxIncs}

(***************************************************************************)
(* Handles to one object.  The script has an object a, handles h1, h2      *)
(* (bound by handle assignment) and h3 (bound by unary @), and writes      *)
(* field n through one handle and reads it through another handle or       *)
(* through a.  s.order = <<w, r, ctx>>: the handle written through, the    *)
(* variable read through (0 is a itself) and where write and read execute. *)
(***************************************************************************)
HandleNames == <<"h1", "h2", "h3">>
Contexts == <<"function", "read in method", "write in method",
              "both in method", "write in method of another object">>
Writer(s) == Var(HandleNames[s.order[1]])
ReaderName(s) == IF s.order[2] = 0 THEN "a" ELSE HandleNames[s.order[2]]
ReadN(s) == MemberExpr(Var(ReaderName(s)), "n")
WriteN(s) == Assign(MemberExpr(Writer(s), "n"), Var("v"))
Context(s) == Contexts[s.order[3]]

\* class Box { int n; void poke(int v) { W.n = v; } int peek() { return
\*   R.n; } int pokePeek(int v) { W.n = v; return R.n; } }
Box(s) ==
    ClassDecl("Box", <<
        VarDecl(Type("int"), "n", None),
        FuncDecl(Type("void"), "poke", <<Param(Type("int"), "v")>>, <<WriteN(s)>>),
        FuncDecl(Type("int"), "peek", <<>>, <<ReturnStmt(ReadN(s))>>),
        FuncDecl(Type("int"), "pokePeek", <<Param(Type("int"), "v")>>,
            <<WriteN(s), ReturnStmt(ReadN(s))>>) >>)

\* void bind() { @h1 = @a; @h2 = @h1; }
Bind ==
    FuncDecl(Type("void"), "bind", <<>>,
        <<Do(HandleAssignExpr(Var("h1"), Var("a"))),
          Do(HandleAssignExpr(Var("h2"), Var("h1")))>>)

\* bool same() { bind(); return W == H; }  H is the handle read through,
\* or the next handle when the script reads through a
Same(s) ==
    FuncDecl(Type("bool"), "same", <<>>,
        <<Do(CallFn("bind", <<>>)),
          ReturnStmt(BinaryExpr(Writer(s), "==",
              Var(HandleNames[IF s.order[2] = 0 THEN (s.order[1] % 3) + 1
                              ELSE s.order[2]])))>>)

\* int test(int v) { bind(); wrote = v; <write and read in the context> }
Test(s) ==
    FuncDecl(Type("int"), "test", <<Param(Type("int"), "v")>>,
        <<Do(CallFn("bind", <<>>)), Assign(Var("wrote"), Var("v"))>> \o
        CASE Context(s) = "function" -> <<WriteN(s), ReturnStmt(ReadN(s))>>
          [] Context(s) = "read in method" ->
                <<WriteN(s), ReturnStmt(CallOn(Var("a"), "peek", <<>>))>>
          [] Context(s) = "write in method" ->
                <<Do(CallOn(Var("a"), "poke", <<Var("v")>>)), ReturnStmt(ReadN(s))>>
          [] Context(s) = "both in method" ->
                <<ReturnStmt(CallOn(Var("a"), "pokePeek", <<Var("v")>>))>>
          [] OTHER ->
                <<Do(CallOn(Var("other"), "poke", <<Var("v")>>)), ReturnStmt(ReadN(s))>>)

\* int read() { bind(); return R.n; }
Read(s) ==
    FuncDecl(Type("int"), "read", <<>>,
        <<Do(CallFn("bind", <<>>)), ReturnStmt(ReadN(s))>>)

\* Box a; Box other; Box@ h1; Box@ h2; Box@ h3 = @a; int wrote = 0;
HandlesProgram(s) ==
    <<Box(s),
      VarDecl(Type("Box"), "a", None),
      VarDecl(Type("Box"), "other", None),
      VarDecl(HandleType("Box"), "h1", None),
      VarDecl(HandleType("Box"), "h2", None),
      VarDecl(HandleType("Box"), "h3", UnaryExpr("@", Var("a"), TRUE)),
      VarDecl(Type("int"), "wrote", Lit(0)),
      Bind, Same(s), Test(s), Read(s)>>

HandleWrites == {9, -4}
HandlesEntries ==
    {Entry("same", <<>>), Entry("read", <<>>)}
        \cup {Entry("test", IntArgs(<<v>>)) : v \in HandleWrites}
HandlesScripts ==
    {Script("handles", <<w, r, c>>) : w \in 1..3, r \in 0..3, c \in 1..Len(Contexts)}

(***************************************************************************)
(* Methods that read and write the fields of their object.  s.order is the *)
(* method the script's go(e) calls on the global object p.                 *)
(***************************************************************************)
Method(returnType, name, body) ==
    FuncDecl(Type(returnType), name, <<Param(Type("int"), "e")>>, body)
ThisX == MemberExpr(Var("this"), "x")

\* class P { int x; int y; P() { x = 1; y = 2; } ... }
P ==
    ClassDecl("P", <<
        VarDecl(Type("int"), "x", None),
        VarDecl(Type("int"), "y", None),
        FuncDecl(None, "P", <<>>, <<Assign(Var("x"), Lit(1)), Assign(Var("y"), Lit(2))>>),
        \* void setBare(int e) { x = e; }
        Method("void", "setBare", <<Assign(Var("x"), Var("e"))>>),
        \* int addBare(int e) { x += e; return x; }
        Method("int", "addBare",
            <<Do(AssignExpr(Var("x"), "+=", Var("e"))), ReturnStmt(Var("x"))>>),
        \* int swap(int e) { int t = x; x = y; y = t; return x; }
        Method("int", "swap",
            <<VarDecl(Type("int"), "t", Var("x")), Assign(Var("x"), Var("y")),
              Assign(Var("y"), Var("t")), ReturnStmt(Var("x"))>>),
        \* void bump(int e) { x++; }
        Method("void", "bump", <<Do(PostInc(Var("x")))>>),
        \* void setThis(int e) { this.x = e; }
        Method("void", "setThis", <<Assign(ThisX, Var("e"))>>),
        \* int readAfterThis(int e) { this.x = e; return x; }
        Method("int", "readAfterThis", <<Assign(ThisX, Var("e")), ReturnStmt(Var("x"))>>),
        \* void viaThis(int e) { this.bump(e); }
        Method("void", "viaThis", <<Do(CallOn(Var("this"), "bump", <<Var("e")>>))>>),
        \* void viaHandle(int e) { hp.bump(e); }
        Method("void", "viaHandle", <<Do(CallOn(Var("hp"), "bump", <<Var("e")>>))>>) >>)

MethodNames ==
    {"setBare", "addBare", "swap", "bump", "setThis", "readAfterThis",
     "viaThis", "viaHandle"}

\* P p; P@ hp = @p; T go(int e) { return p.m(e); } int getX() { return p.x; }
MethodsProgram(s) ==
    <<P,
      VarDecl(Type("P"), "p", None),
      VarDecl(HandleType("P"), "hp", UnaryExpr("@", Var("p"), TRUE)),
      FuncDecl(Type("int"), "go", <<Param(Type("int"), "e")>>,
          <<ReturnStmt(CallOn(Var("p"), s.order[1], <<Var("e")>>))>>),
      FuncDecl(Type("int"), "getX", <<>>, <<ReturnStmt(MemberExpr(Var("p"), "x"))>>)>>

MethodArgs == {7, -2}
MethodsEntries ==
    {Entry("getX", <<>>)} \cup {Entry("go", IntArgs(<<e>>)) : e \in MethodArgs}
MethodsScripts == {Script("methods", <<name>>) : name \in MethodNames}

(***************************************************************************)
(* Plain declarations and assignments of objects and arrays.  s.order says *)
(* how b gets its value:  T b = a;  or  T b; b = a;                        *)
(***************************************************************************)
CopyToB(s, typeRef) ==
    IF s.order[1] = "declaration" THEN <<VarDecl(typeRef, "b", Var("a"))>>
    ELSE <<VarDecl(typeRef, "b", None), Assign(Var("b"), Var("a"))>>

\* int[] a; a.push(5); a.push(6); then b is given a
TwoElements(s) ==
    <<VarDecl(ArrayType("int"), "a", None),
      Do(CallOn(Var("a"), "push", <<Lit(5)>>)),
      Do(CallOn(Var("a"), "push", <<Lit(6)>>))>> \o CopyToB(s, ArrayType("int"))

SizeOfA == CallOn(Var("a"), "size", <<>>)

ValuesProgram(s) ==
    <<ClassDecl("Cell", <<VarDecl(Type("int"), "n", None)>>),
      \* int field(int v) { Cell a; a.n = 5; <b from a> b.n = v; return a.n; }
      FuncDecl(Type("int"), "field", <<Param(Type("int"), "v")>>,
          <<VarDecl(Type("Cell"), "a", None), Assign(MemberExpr(Var("a"), "n"), Lit(5))>>
          \o CopyToB(s, Type("Cell"))
          \o <<Assign(MemberExpr(Var("b"), "n"), Var("v")),
               ReturnStmt(MemberExpr(Var("a"), "n"))>>),
      \* int element(int v) { ... b[0] = v; return a[0]; }
      FuncDecl(Type("int"), "element", <<Param(Type("int"), "v")>>,
          TwoElements(s)
          \o <<Assign(IndexExpr(Var("b"), Lit(0)), Var("v")),
               ReturnStmt(IndexExpr(Var("a"), Lit(0)))>>),
      \* int push(int v) { ... b.push(v); return a.size(); }
      FuncDecl(Type("int"), "push", <<Param(Type("int"), "v")>>,
          TwoElements(s)
          \o <<Do(CallOn(Var("b"), "push", <<Var("v")>>)), ReturnStmt(SizeOfA)>>),
      \* int removeAt(int v) { ... b.removeAt(v); return a.size(); }
      FuncDecl(Type("int"), "removeAt", <<Param(Type("int"), "v")>>,
          TwoElements(s)
          \o <<Do(CallOn(Var("b"), "removeAt", <<Var("v")>>)), ReturnStmt(SizeOfA)>>)>>

ValuesArgs == {0, 1}
ValuesEntries ==
    {Entry(f, IntArgs(<<v>>)) :
        f \in {"field", "element", "push", "removeAt"}, v \in ValuesArgs}
ValuesScripts == {Script("values", <<how>>) : how \in {"declaration", "assignment"}}

(***************************************************************************)
(* && and || with a right operand that counts its evaluations in a global. *)
(***************************************************************************)
\* the left operands: expression and whether its value is truthy
Left(expr, truthy) == [expr |-> expr, truthy |-> truthy]
Lefts ==
    <<Left(Lit(0), FALSE), Left(UnaryExpr("-", Lit(5), TRUE), TRUE),
      Left(BoolLiteral(TRUE), TRUE), Left(BoolLiteral(FALSE), FALSE),
      Left(StringLiteral(""), FALSE), Left(StringLiteral("a"), TRUE),
      Left(NullLiteral, FALSE), Left(Var("nh"), FALSE),
      Left(FloatLiteral(<<5, 2, 0>>), TRUE)>>

\* int c = 0; bool r = false && side(1); bool q = true || side(1);
\* Cell@ nh;
\* int side(int v) { c++; return v; }
\* pick(int k) { if (k == 1) return 0; if (k == 2) return -5; ... }
\* andL(int k, int v) { return pick(k) && side(v); }
\* orL(int k, int v) { return pick(k) || side(v); }
ShortCircuitProgram ==
    <<VarDecl(Type("int"), "c", Lit(0)),
      VarDecl(Type("bool"), "r",
          BinaryExpr(BoolLiteral(FALSE), "&&", CallFn("side", <<Lit(1)>>))),
      VarDecl(Type("bool"), "q",
          BinaryExpr(BoolLiteral(TRUE), "||", CallFn("side", <<Lit(1)>>))),
      VarDecl(HandleType("Cell"), "nh", None),
      FuncDecl(Type("int"), "side", <<Param(Type("int"), "v")>>,
          <<Do(PostInc(Var("c"))), ReturnStmt(Var("v"))>>),
      FuncDecl(Type("int"), "pick", <<Param(Type("int"), "k")>>,
          [i \in 1..Len(Lefts) |->
              IfStmt(BinaryExpr(Var("k"), "==", Lit(i)), ReturnStmt(Lefts[i].expr), None)]),
      FuncDecl(Type("bool"), "andL", <<Param(Type("int"), "k"), Param(Type("int"), "v")>>,
          <<ReturnStmt(BinaryExpr(CallFn("pick", <<Var("k")>>), "&&",
                                  CallFn("side", <<Var("v")>>)))>>),
      FuncDecl(Type("bool"), "orL", <<Param(Type("int"), "k"), Param(Type("int"), "v")>>,
          <<ReturnStmt(BinaryExpr(CallFn("pick", <<Var("k")>>), "||",
                                  CallFn("side", <<Var("v")>>)))>>)>>

ShortCircuitEntries ==
    {Entry(f, IntArgs(<<k, 7>>)) : f \in {"andL", "orL"}, k \in 1..Len(Lefts)}

(***************************************************************************)
(* A for loop whose condition, body and update clause log their            *)
(* evaluations, and whose iteration number `at` ends as `mode` says.       *)
(***************************************************************************)
Modes == <<"normal", "continue", "break", "return", "error">>
ModeIs(k) == BinaryExpr(Var("mode"), "==", Lit(k))

\* bool cond(int i, int n) { G_Print("c"); return i < n; }
\* int upd(int i) { G_Print("u"); return i + 1; }
\* void loop(int n, int at, int mode) {
\*   for (int i = 0; cond(i, n); i = upd(i)) {
\*     G_Print("b");
\*     if (i == at) { if (mode == 2) continue; if (mode == 3) break;
\*                    if (mode == 4) return; if (mode == 5) nosuch; }
\*     G_Print("e"); }
\*   G_Print("x"); }
ForLoopProgram ==
    <<FuncDecl(Type("bool"), "cond", <<Param(Type("int"), "i"), Param(Type("int"), "n")>>,
          <<Log(StringLiteral("c")), ReturnStmt(BinaryExpr(Var("i"), "<", Var("n")))>>),
      FuncDecl(Type("int"), "upd", <<Param(Type("int"), "i")>>,
          <<Log(StringLiteral("u")), ReturnStmt(BinaryExpr(Var("i"), "+", Lit(1)))>>),
      FuncDecl(Type("void"), "loop",
          <<Param(Type("int"), "n"), Param(Type("int"), "at"), Param(Type("int"), "mode")>>,
          <<ForStmt(VarDecl(Type("int"), "i", Lit(0)),
                    CallFn("cond", <<Var("i"), Var("n")>>),
                    AssignExpr(Var("i"), "=", CallFn("upd", <<Var("i")>>)),
                    Block(<<Log(StringLiteral("b")),
                            IfStmt(BinaryExpr(Var("i"), "==", Var("at")),
                                Block(<<IfStmt(ModeIs(2), ContinueStmt, None),
                                        IfStmt(ModeIs(3), BreakStmt, None),
                                        IfStmt(ModeIs(4), ReturnStmt(None), None),
                                        IfStmt(ModeIs(5), Do(Var("nosuch")), None)>>),
                                None),
                            Log(StringLiteral("e"))>>)),
            Log(StringLiteral("x"))>>)>>

MaxIters == 2
ForLoopEntries ==
    {Entry("loop", IntArgs(<<n, at, mode>>)) :
        n \in 0..MaxIters, at \in 0..1, mode \in 1..Len(Modes)}

(***************************************************************************)
(* Two switch statements: f returns from its cases, g logs the bodies it   *)
(* runs.  GCases is g's case list: label (None for default), the tag the   *)
(* body logs, and whether the body ends with break.                        *)
(***************************************************************************)
GCase(label, tag, break) == [tag |-> tag, label |-> label, break |-> break]
GCases ==
    <<GCase(Lit(1), "1", FALSE), GCase(Lit(2), "2", TRUE), GCase(Lit(3), "3", FALSE),
      GCase(None, "d", FALSE), GCase(Lit(4), "4", FALSE)>>

\* int f(int x) { switch (x) { case 1: case 2: return 20; case 3: return
\*   30; default: return 0; } }
\* int disc(int x) { G_Print("x"); return x; }
\* void g(int x) { switch (disc(x)) { case 1: G_Print("1"); case 2:
\*   G_Print("2"); break; case 3: G_Print("3"); default: G_Print("d");
\*   case 4: G_Print("4"); } G_Print("end"); }
SwitchProgram ==
    <<FuncDecl(Type("int"), "f", <<Param(Type("int"), "x")>>,
          <<SwitchStmt(Var("x"),
              <<SwitchCase(Lit(1), <<>>),
                SwitchCase(Lit(2), <<ReturnStmt(Lit(20))>>),
                SwitchCase(Lit(3), <<ReturnStmt(Lit(30))>>),
                SwitchCase(None, <<ReturnStmt(Lit(0))>>)>>)>>),
      FuncDecl(Type("int"), "disc", <<Param(Type("int"), "x")>>,
          <<Log(StringLiteral("x")), ReturnStmt(Var("x"))>>),
      FuncDecl(Type("void"), "g", <<Param(Type("int"), "x")>>,
          <<SwitchStmt(CallFn("disc", <<Var("x")>>),
              [i \in 1..Len(GCases) |->
                  SwitchCase(GCases[i].label,
                      <<Log(StringLiteral(GCases[i].tag))>>
                      \o IF GCases[i].break THEN <<BreakStmt>> ELSE <<>>)]),
            Log(StringLiteral("end"))>>)>>

SwitchArgs == {0, 1, 2, 3, 4, 9}
SwitchEntries == {Entry(f, IntArgs(<<x>>)) : f \in {"f", "g"}, x \in SwitchArgs}

(***************************************************************************)
(* A global array of s.order[1] elements 10, 11, ... and a function that   *)
(* reads one element.                                                      *)
(***************************************************************************)
\* int[] make() { int[] a; for (int k = 0; k < N; k++) a.push(10 + k);
\*   return a; }
\* int[] xs = make();
\* int read(int i) { return xs[i]; }
ArraysProgram(s) ==
    <<FuncDecl(ArrayType("int"), "make", <<>>,
          <<VarDecl(ArrayType("int"), "a", None),
            ForStmt(VarDecl(Type("int"), "k", Lit(0)),
                    BinaryExpr(Var("k"), "<", Lit(s.order[1])), PostInc(Var("k")),
                    Do(CallOn(Var("a"), "push", <<BinaryExpr(Lit(10), "+", Var("k"))>>))),
            ReturnStmt(Var("a"))>>),
      VarDecl(ArrayType("int"), "xs", CallFn("make", <<>>)),
      FuncDecl(Type("int"), "read", <<Param(Type("int"), "i")>>,
          <<ReturnStmt(IndexExpr(Var("xs"), Var("i")))>>)>>

MaxLen == 3
ArraysEntries ==
    {Entry("read", IntArgs(<<i>>)) : i \in -2..(MaxLen + 1)}
        \cup {Entry("read", <<FLOAT(v)>>) : v \in {<<-1, 2, 0>>, Num(0)}}
ArraysScripts == {Script("arrays", <<n>>) : n \in 0..MaxLen}

(***************************************************************************)
(* Declarations that refer to each other, in every source order.  s.order  *)
(* is the permutation: the program is Declarations[s.order[1]], ...        *)
(***************************************************************************)
\* int g0 = first();  Late lt = new Late(5);
\* int first() { return second() + 1; }
\* int second() { Late l = new Late(41); return l.k; }
\* class Late { int k; Late(int v) { k = v; } }
Declarations ==
    <<VarDecl(Type("int"), "g0", CallFn("first", <<>>)),
      VarDecl(Type("Late"), "lt", NewExpr("Late", <<Lit(5)>>)),
      FuncDecl(Type("int"), "first", <<>>,
          <<ReturnStmt(BinaryExpr(CallFn("second", <<>>), "+", Lit(1)))>>),
      FuncDecl(Type("int"), "second", <<>>,
          <<VarDecl(Type("Late"), "l", NewExpr("Late", <<Lit(41)>>)),
            ReturnStmt(MemberExpr(Var("l"), "k"))>>),
      ClassDecl("Late", <<
          VarDecl(Type("int"), "k", None),
          FuncDecl(None, "Late", <<Param(Type("int"), "v")>>,
              <<Assign(Var("k"), Var("v"))>>) >>)>>

\* the same with a first initializer that fails:  int g0 = nosuch;
FailingDeclarations ==
    [Declarations EXCEPT ![1] = VarDecl(Type("int"), "g0", Var("nosuch"))]

Orders(n) ==
    {p \in [1..n -> 1..n] : \A i, j \in 1..n : p[i] = p[j] => i = j}

ForwardProgram(s) ==
    [i \in 1..Len(s.order) |->
        IF s.name = "forward" THEN Declarations[s.order[i]]
        ELSE FailingDeclarations[s.order[i]]]

ForwardEntries == {Entry("first", <<>>), Entry("second", <<>>)}
ForwardScripts ==
    {Script(name, p) : name \in {"forward", "forward failing"},
                       p \in Orders(Len(Declarations))}

\* arith: one binary operator applied to two arguments, as an expression
\* and as a compound assignment; order = <<op>>
\*   int binary(int a, int b) { return a op b; }
\*   int boolBinary(int a, int b) { return bool(a) op b; }
\*   int compound(int t, int b) { t op= b; return t; }
\*   int boolCompound(int a, int b) { bool t = bool(a); t op= b; return t; }
BinaryOps == {"+", "-", "*", "/", "%", "&", "|", "^", "<<", ">>"}
CompoundOps == {"+", "-", "*", "/", "%", "&", "|", "^"}
AB == <<Param(Type("int"), "a"), Param(Type("int"), "b")>>
ArithProgram(s) ==
    <<FuncDecl(Type("int"), "binary", AB,
          <<ReturnStmt(BinaryExpr(Var("a"), s.order[1], Var("b")))>>),
      FuncDecl(Type("int"), "boolBinary", AB,
          <<ReturnStmt(BinaryExpr(CastExpr(Type("bool"), Var("a")), s.order[1], Var("b")))>>)>>
    \o IF s.order[1] \in CompoundOps
           THEN <<FuncDecl(Type("int"), "compound",
                      <<Param(Type("int"), "t"), Param(Type("int"), "b")>>,
                      <<ExprStmt(AssignExpr(Var("t"), s.order[1] \o "=", Var("b"))),
                        ReturnStmt(Var("t"))>>),
                  FuncDecl(Type("int"), "boolCompound", AB,
                      <<VarDecl(Type("bool"), "t", CastExpr(Type("bool"), Var("a"))),
                        ExprStmt(AssignExpr(Var("t"), s.order[1] \o "=", Var("b"))),
                        ReturnStmt(Var("t"))>>)>>
       ELSE <<>>

\* the operands: 32-bit integers with the extremes, and floats paired with
\* the small integers
ArithInts == {MinInt32, -7, -1, 0, 2, MaxInt32}
SmallInts == {-7, 0, 2}
ArithFloats == {<<5, 2, 0>>, <<-7, 2, 0>>, Num(0)}
\* a quotient of -2^31 or by -2^31 has a fraction that the numbers of the
\* model do not hold, except for the divisors -1, 0 and 2
ArithIntPairs(op) ==
    IF op = "/"
        THEN {<<a, b>> : a, b \in ArithInts \ {MinInt32}}
                \cup {<<MinInt32, b>> : b \in {-1, 0, 2}}
    ELSE ArithInts \X ArithInts
ArithPairs(op) ==
    {<<INT(Num(p[1])), INT(Num(p[2]))>> : p \in ArithIntPairs(op)}
        \cup {<<INT(Num(a)), FLOAT(b)>> : a \in SmallInts, b \in ArithFloats}
        \cup {<<FLOAT(a), INT(Num(b))>> : a \in ArithFloats, b \in SmallInts}
        \cup {<<FLOAT(a), FLOAT(b)>> : a, b \in ArithFloats}
ArithEntries(op) ==
    {Entry(f, args) : f \in {"binary"} \cup (IF op \in CompoundOps THEN {"compound"} ELSE {}),
                      args \in ArithPairs(op)}
        \cup {Entry(f, <<INT(Num(a)), args[2]>>) :
                f \in {"boolBinary"} \cup (IF op = "/" THEN {"boolCompound"} ELSE {}),
                a \in {0, 1}, args \in ArithPairs(op)}
ArithScripts == {Script("arith", <<op>>) : op \in BinaryOps}

\* unary: the operators and methods of one operand
\*   int postInc(int a) { a++; return a; }     int postIncValue(int a) { return a++; }
\*   int preInc(int a) { return ++a; }         (and the same with --)
\*   int negate(int a) { return -a; }          int complement(int a) { return ~a; }
\*   int toInt(float x) { return int(x); }     int literal() { return 2147483647 + 1; }
\*   int sizeOf(int n) { array<int> xs; for (int k = 0; k < n; k++) xs.push(k); return xs.size(); }
\*   int findIn(int n, int v) { ... return xs.find(v); }
\*   int lenOf() { return "abc".len(); }
A1 == <<Param(Type("int"), "a")>>
Pushes(n) ==
    <<VarDecl(ArrayType("int"), "xs", None),
      ForStmt(VarDecl(Type("int"), "k", Lit(0)),
              BinaryExpr(Var("k"), "<", Var(n)), PostInc(Var("k")),
              Do(CallOn(Var("xs"), "push", <<Var("k")>>)))>>
UnaryProgram ==
    <<FuncDecl(Type("int"), "postInc", A1, <<Do(PostInc(Var("a"))), ReturnStmt(Var("a"))>>),
      FuncDecl(Type("int"), "postIncValue", A1, <<ReturnStmt(PostInc(Var("a")))>>),
      FuncDecl(Type("int"), "preInc", A1, <<ReturnStmt(UnaryExpr("++", Var("a"), TRUE))>>),
      FuncDecl(Type("int"), "postDec", A1,
          <<Do(UnaryExpr("--", Var("a"), FALSE)), ReturnStmt(Var("a"))>>),
      FuncDecl(Type("int"), "preDec", A1, <<ReturnStmt(UnaryExpr("--", Var("a"), TRUE))>>),
      FuncDecl(Type("int"), "negate", A1, <<ReturnStmt(UnaryExpr("-", Var("a"), TRUE))>>),
      FuncDecl(Type("int"), "complement", A1, <<ReturnStmt(UnaryExpr("~", Var("a"), TRUE))>>),
      FuncDecl(Type("int"), "toInt", <<Param(Type("float"), "x")>>,
          <<ReturnStmt(CastExpr(Type("int"), Var("x")))>>),
      FuncDecl(Type("int"), "literal", <<>>,
          <<ReturnStmt(BinaryExpr(Lit(MaxInt32), "+", Lit(1)))>>),
      FuncDecl(Type("int"), "sizeOf", <<Param(Type("int"), "n")>>,
          Pushes("n") \o <<ReturnStmt(CallOn(Var("xs"), "size", <<>>))>>),
      FuncDecl(Type("int"), "findIn", <<Param(Type("int"), "n"), Param(Type("int"), "v")>>,
          Pushes("n") \o <<ReturnStmt(CallOn(Var("xs"), "find", <<Var("v")>>))>>),
      FuncDecl(Type("int"), "lenOf", <<>>,
          <<ReturnStmt(CallOn(StringLiteral("abc"), "len", <<>>))>>)>>
UnaryNames == {"postInc", "postIncValue", "preInc", "postDec", "preDec", "negate",
               "complement", "toInt"}
\* 2^32 + 5 and -(2^31) - 1/2: floats beyond the range of an Int
BigFloats == {<<5, 1, 1>>, <<2147483647, 2, -1>>}
UnaryEntries ==
    {Entry(f, <<INT(Num(a))>>) : f \in UnaryNames, a \in ArithInts}
        \cup {Entry(f, <<FLOAT(x)>>) : f \in UnaryNames, x \in ArithFloats}
        \cup {Entry("toInt", <<FLOAT(x)>>) : x \in BigFloats}
        \cup {Entry(f, <<>>) : f \in {"literal", "lenOf"}}
        \cup {Entry("sizeOf", IntArgs(<<n>>)) : n \in 0..MaxLen}
        \cup {Entry("findIn", IntArgs(<<n, v>>)) : n \in 0..MaxLen, v \in 0..MaxLen}

(***************************************************************************)
(* Equality of a value with itself.  subject k of eq and ne is compared    *)
(* with itself by == and by !=.                                            *)
(*   class Cell { int n; }  Cell obj; Cell@ nh; Cell@ h;                   *)
(*   bool eq(int k, int a) { bool b = bool(a);                             *)
(*     string s = a == 0 ? "" : "abc"; float nan = 0.0 % 0; @h = @obj;     *)
(*     if (k == 1) return a == a; if (k == 2) return b == b; ... }         *)
(***************************************************************************)
Subjects ==
    <<Var("a"), Var("b"), Var("s"), NullLiteral, Var("obj"), Var("h"), Var("nh"),
      Var("nan")>>
Compare(name, op) ==
    FuncDecl(Type("bool"), name, <<Param(Type("int"), "k"), Param(Type("int"), "a")>>,
        <<VarDecl(Type("bool"), "b", CastExpr(Type("bool"), Var("a"))),
          VarDecl(Type("string"), "s",
              TernaryExpr(BinaryExpr(Var("a"), "==", Lit(0)),
                          StringLiteral(""), StringLiteral("abc"))),
          VarDecl(Type("float"), "nan", BinaryExpr(FloatLiteral(Num(0)), "%", Lit(0))),
          Do(HandleAssignExpr(Var("h"), Var("obj")))>>
        \o [i \in 1..Len(Subjects) |->
              IfStmt(BinaryExpr(Var("k"), "==", Lit(i)),
                     ReturnStmt(BinaryExpr(Subjects[i], op, Subjects[i])), None)])
EqualityProgram ==
    <<ClassDecl("Cell", <<VarDecl(Type("int"), "n", None)>>),
      VarDecl(Type("Cell"), "obj", None),
      VarDecl(HandleType("Cell"), "nh", None),
      VarDecl(HandleType("Cell"), "h", None),
      Compare("eq", "=="), Compare("ne", "!=")>>
EqualityEntries ==
    {Entry(f, <<INT(Num(1)), a>>) :
        f \in {"eq", "ne"},
        a \in {INT(Num(n)) : n \in ArithInts} \cup {FLOAT(x) : x \in ArithFloats \cup BigFloats}}
      \cup {Entry(f, IntArgs(<<k, a>>)) :
              f \in {"eq", "ne"}, k \in 2..Len(Subjects), a \in {0, 2}}

(***************************************************************************)
(* Declarations of class-typed variables without initializer, at global    *)
(* level and at statement level.                                           *)
(*   class Plain { int i; float f; bool b; string s; int init = 7; }       *)
(*   class Made { int n; int init = 7; Made() { n = 5; } }                 *)
(*   class WithParam { int n; WithParam(int v) { n = 9; } }                *)
(*   Plain p; Made m; WithParam w; Plain@ h;                               *)
(*   global(int k) { return <observation k>; }                             *)
(*   local(int k) { Plain p; Made m; WithParam w; Plain@ h; return ...; }  *)
(*   handles(int k) { Plain@ h; Made@ hm; return k == 1 ? h : hm; }        *)
(***************************************************************************)
ConstructClasses ==
    <<ClassDecl("Plain", <<VarDecl(Type("int"), "i", None),
                           VarDecl(Type("float"), "f", None),
                           VarDecl(Type("bool"), "b", None),
                           VarDecl(Type("string"), "s", None),
                           VarDecl(Type("int"), "init", Lit(7))>>),
      ClassDecl("Made", <<VarDecl(Type("int"), "n", None),
                          VarDecl(Type("int"), "init", Lit(7)),
                          FuncDecl(None, "Made", <<>>, <<Assign(Var("n"), Lit(5))>>)>>),
      ClassDecl("WithParam", <<VarDecl(Type("int"), "n", None),
                               FuncDecl(None, "WithParam", <<Param(Type("int"), "v")>>,
                                        <<Assign(Var("n"), Lit(9))>>)>>)>>
ConstructDecls ==
    <<VarDecl(Type("Plain"), "p", None), VarDecl(Type("Made"), "m", None),
      VarDecl(Type("WithParam"), "w", None), VarDecl(HandleType("Plain"), "h", None)>>
Observations ==
    <<MemberExpr(Var("p"), "i"), MemberExpr(Var("p"), "f"), MemberExpr(Var("p"), "b"),
      MemberExpr(Var("p"), "s"), MemberExpr(Var("p"), "init"), MemberExpr(Var("m"), "n"),
      MemberExpr(Var("m"), "init"), MemberExpr(Var("w"), "n"), Var("h")>>
Observe ==
    [i \in 1..Len(Observations) |->
        IfStmt(BinaryExpr(Var("k"), "==", Lit(i)), ReturnStmt(Observations[i]), None)]
K1 == <<Param(Type("int"), "k")>>
ConstructProgram ==
    ConstructDecls \o ConstructClasses \o
    <<FuncDecl(Type("int"), "global", K1, Observe),
      FuncDecl(Type("int"), "local", K1, ConstructDecls \o Observe),
      FuncDecl(Type("int"), "handles", K1,
          <<VarDecl(HandleType("Plain"), "h", None), VarDecl(HandleType("Made"), "hm", None),
            ReturnStmt(TernaryExpr(BinaryExpr(Var("k"), "==", Lit(1)), Var("h"), Var("hm")))>>)>>
ConstructEntries ==
    {Entry(f, IntArgs(<<k>>)) : f \in {"global", "local"}, k \in 1..Len(Observations)}
        \cup {Entry("handles", IntArgs(<<k>>)) : k \in 1..2}

(***************************************************************************)
(* An array that holds 1, 2, 3 and then undergoes the operations of        *)
(* s.order, after which its size, an index found or an element is          *)
(* returned.                                                               *)
(*   int observe(int k, int v) { array<int> xs; xs.push(1); xs.push(2);    *)
(*     xs.push(3); <s.order>; if (k == 0) return xs.size();                *)
(*     if (k == 1) return xs.find(v); return xs[v]; }                      *)
(***************************************************************************)
Op(name, args) == [name |-> name, args |-> args]
ArrayOps ==
    {Op("push", <<4>>), Op("insertLast", <<2>>), Op("pop", <<>>), Op("removeLast", <<>>),
     Op("insertAt", <<0, 2>>), Op("insertAt", <<1, 5>>),
     Op("removeAt", <<0>>), Op("removeAt", <<1>>)}
OnXs(op) == Do(CallOn(Var("xs"), op.name, [i \in 1..Len(op.args) |-> Lit(op.args[i])]))
ArrayOpsProgram(s) ==
    <<FuncDecl(Type("int"), "observe", <<Param(Type("int"), "k"), Param(Type("int"), "v")>>,
          <<VarDecl(ArrayType("int"), "xs", None),
            OnXs(Op("push", <<1>>)), OnXs(Op("push", <<2>>)), OnXs(Op("push", <<3>>))>>
          \o [i \in 1..Len(s.order) |-> OnXs(s.order[i])]
          \o <<IfStmt(BinaryExpr(Var("k"), "==", Lit(0)),
                      ReturnStmt(CallOn(Var("xs"), "size", <<>>)), None),
               IfStmt(BinaryExpr(Var("k"), "==", Lit(1)),
                      ReturnStmt(CallOn(Var("xs"), "find", <<Var("v")>>)), None),
               ReturnStmt(IndexExpr(Var("xs"), Var("v")))>>)>>

\* the sequences of at most MaxOps operations
MaxOps == 2
RECURSIVE OpSeqs(_)
OpSeqs(n) ==
    IF n = 0 THEN {<<>>}
    ELSE OpSeqs(n - 1) \cup {Append(ops, op) : ops \in OpSeqs(n - 1), op \in ArrayOps}
ArrayOpsScripts == {Script("arrayops", ops) : ops \in OpSeqs(MaxOps)}
ArrayOpsEntries ==
    {Entry("observe", IntArgs(<<0, 0>>))}
        \cup {Entry("observe", IntArgs(<<1, v>>)) : v \in 1..6}
        \cup {Entry("observe", IntArgs(<<2, i>>)) : i \in 0..4}

(***************************************************************************)
(* Names bound late.  G_Print is registered by the host and missing is     *)
(* bound nowhere; in "late at load" a global initializer calls hello.      *)
(*   int hello(int v) { G_Print(v); return v; }                            *)
(*   int maybe(int k) { if (k == 1) return missing(k); return 3; }         *)
(*   int g = hello(5);                                                     *)
(***************************************************************************)
LateProgram(s) ==
    <<FuncDecl(Type("int"), "hello", <<Param(Type("int"), "v")>>,
          <<Log(Var("v")), ReturnStmt(Var("v"))>>),
      FuncDecl(Type("int"), "maybe", <<Param(Type("int"), "k")>>,
          <<IfStmt(BinaryExpr(Var("k"), "==", Lit(1)),
                   ReturnStmt(CallFn("missing", <<Var("k")>>)), None),
            ReturnStmt(Lit(3))>>)>>
    \o IF s.name = "late at load"
           THEN <<VarDecl(Type("int"), "g", CallFn("hello", <<Lit(5)>>))>>
       ELSE <<>>
LateEntries ==
    {Entry("hello", IntArgs(<<7>>)), Entry("maybe", IntArgs(<<0>>)),
     Entry("maybe", IntArgs(<<1>>))}
LateScripts == {Script("late", <<>>), Script("late at load", <<>>)}

(***************************************************************************)
(* break and continue executed in a called function, outside any loop or   *)
(* switch of that function, while the caller is inside a loop or a switch. *)
(*   void stop() { break; }   void skip() { continue; }                    *)
(*   void act(int k) { if (k == 1) stop(); if (k == 2) skip(); }           *)
(*   int inWhile(int n, int k) { int i = 0; int c = 0;                     *)
(*     while (i < n) { i++; act(k); c++; } return c; }                     *)
(*   int inFor(int n, int k) { int c = 0;                                  *)
(*     for (int i = 0; i < n; i++) { act(k); c++; } return c; }            *)
(*   int inDo(int n, int k) { int i = 0; int c = 0;                        *)
(*     do { i++; act(k); c++; } while (i < n); return c; }                 *)
(*   int inSwitch(int n, int k) { int c = 0;                               *)
(*     switch (1) { case 1: act(k); c = n; } return c; }                   *)
(***************************************************************************)
NK == <<Param(Type("int"), "n"), Param(Type("int"), "k")>>
ActThenCount == <<Do(CallFn("act", <<Var("k")>>)), Do(PostInc(Var("c")))>>
SignalsProgram ==
    <<FuncDecl(Type("void"), "stop", <<>>, <<BreakStmt>>),
      FuncDecl(Type("void"), "skip", <<>>, <<ContinueStmt>>),
      FuncDecl(Type("void"), "act", <<Param(Type("int"), "k")>>,
          <<IfStmt(BinaryExpr(Var("k"), "==", Lit(1)), Do(CallFn("stop", <<>>)), None),
            IfStmt(BinaryExpr(Var("k"), "==", Lit(2)), Do(CallFn("skip", <<>>)), None)>>),
      FuncDecl(Type("int"), "inWhile", NK,
          <<VarDecl(Type("int"), "i", Lit(0)), VarDecl(Type("int"), "c", Lit(0)),
            WhileStmt(BinaryExpr(Var("i"), "<", Var("n")),
                      Block(<<Do(PostInc(Var("i")))>> \o ActThenCount)),
            ReturnStmt(Var("c"))>>),
      FuncDecl(Type("int"), "inFor", NK,
          <<VarDecl(Type("int"), "c", Lit(0)),
            ForStmt(VarDecl(Type("int"), "i", Lit(0)),
                    BinaryExpr(Var("i"), "<", Var("n")), PostInc(Var("i")),
                    Block(ActThenCount)),
            ReturnStmt(Var("c"))>>),
      FuncDecl(Type("int"), "inDo", NK,
          <<VarDecl(Type("int"), "i", Lit(0)), VarDecl(Type("int"), "c", Lit(0)),
            DoWhileStmt(Block(<<Do(PostInc(Var("i")))>> \o ActThenCount),
                        BinaryExpr(Var("i"), "<", Var("n"))),
            ReturnStmt(Var("c"))>>),
      FuncDecl(Type("int"), "inSwitch", NK,
          <<VarDecl(Type("int"), "c", Lit(0)),
            SwitchStmt(Lit(1),
                <<SwitchCase(Lit(1), <<Do(CallFn("act", <<Var("k")>>)),
                                       Assign(Var("c"), Var("n"))>>)>>),
            ReturnStmt(Var("c"))>>)>>
Enclosing == {"inWhile", "inFor", "inDo", "inSwitch"}
SignalsEntries ==
    {Entry(f, IntArgs(<<n, k>>)) : f \in Enclosing, n \in 1..MaxIters, k \in 0..2}
        \cup {Entry(f, <<>>) : f \in {"stop", "skip"}}

(***************************************************************************)
(* The frame of a call.  caller and shadow hold locals that the functions  *)
(* they call name: x, which is no global, and g, which is one.             *)
(*   int g = 10;                                                           *)
(*   int peek() { return x; }      int poke() { x = 99; return x; }        *)
(*   int readG() { return g; }     int writeG(int v) { g = v; return 0; }  *)
(*   int depth(int n) { int mine = n; if (n > 0) depth(n - 1);             *)
(*     return mine; }                                                      *)
(*   int caller(int k) { int x = 5; if (k == 1) return peek();             *)
(*     if (k == 2) { poke(); return x; } if (k == 3) return readG();       *)
(*     if (k == 4) { writeG(7); return g; } return poke(); }               *)
(*   int shadow(int k) { int g = 1; if (k == 1) return readG();            *)
(*     if (k == 2) { writeG(8); return g; } return g; }                    *)
(***************************************************************************)
When(k, body) == IfStmt(BinaryExpr(Var("k"), "==", Lit(k)), Block(body), None)
FramesProgram ==
    <<VarDecl(Type("int"), "g", Lit(10)),
      FuncDecl(Type("int"), "peek", <<>>, <<ReturnStmt(Var("x"))>>),
      FuncDecl(Type("int"), "poke", <<>>,
          <<Assign(Var("x"), Lit(99)), ReturnStmt(Var("x"))>>),
      FuncDecl(Type("int"), "readG", <<>>, <<ReturnStmt(Var("g"))>>),
      FuncDecl(Type("int"), "writeG", <<Param(Type("int"), "v")>>,
          <<Assign(Var("g"), Var("v")), ReturnStmt(Lit(0))>>),
      FuncDecl(Type("int"), "depth", <<Param(Type("int"), "n")>>,
          <<VarDecl(Type("int"), "mine", Var("n")),
            IfStmt(BinaryExpr(Var("n"), ">", Lit(0)),
                   Do(CallFn("depth", <<BinaryExpr(Var("n"), "-", Lit(1))>>)), None),
            ReturnStmt(Var("mine"))>>),
      FuncDecl(Type("int"), "caller", K1,
          <<VarDecl(Type("int"), "x", Lit(5)),
            When(1, <<ReturnStmt(CallFn("peek", <<>>))>>),
            When(2, <<Do(CallFn("poke", <<>>)), ReturnStmt(Var("x"))>>),
            When(3, <<ReturnStmt(CallFn("readG", <<>>))>>),
            When(4, <<Do(CallFn("writeG", <<Lit(7)>>)), ReturnStmt(Var("g"))>>),
            ReturnStmt(CallFn("poke", <<>>))>>),
      FuncDecl(Type("int"), "shadow", K1,
          <<VarDecl(Type("int"), "g", Lit(1)),
            When(1, <<ReturnStmt(CallFn("readG", <<>>))>>),
            When(2, <<Do(CallFn("writeG", <<Lit(8)>>)), ReturnStmt(Var("g"))>>),
            ReturnStmt(Var("g"))>>)>>
FramesEntries ==
    {Entry("caller", IntArgs(<<k>>)) : k \in 1..5}
        \cup {Entry("shadow", IntArgs(<<k>>)) : k \in 1..3}
        \cup {Entry("depth", IntArgs(<<n>>)) : n \in 0..MaxIters}
        \cup {Entry("peek", <<>>)}

(***************************************************************************)
(* Switch statements whose default label stands before a case, and whose   *)
(* case values log their evaluation.                                       *)
(*   int tag(int v) { G_Print(v); return v; }                              *)
(*   void first(int x) { switch (x) { default: G_Print("A"); break;        *)
(*     case 1: G_Print("B"); } }                                           *)
(*   void through(int x) { switch (x) { default: G_Print("A");             *)
(*     case tag(1): G_Print("B"); } }                                      *)
(*   void lazy(int x) { switch (x) { case tag(1): G_Print("a");            *)
(*     case tag(2): G_Print("b"); break; case tag(3): G_Print("c");        *)
(*     default: G_Print("d"); case tag(4): G_Print("e"); } }               *)
(***************************************************************************)
Tag(v) == CallFn("tag", <<Lit(v)>>)
Says(t) == Log(StringLiteral(t))
DefaultsProgram ==
    <<FuncDecl(Type("int"), "tag", <<Param(Type("int"), "v")>>,
          <<Log(Var("v")), ReturnStmt(Var("v"))>>),
      FuncDecl(Type("void"), "first", <<Param(Type("int"), "x")>>,
          <<SwitchStmt(Var("x"),
              <<SwitchCase(None, <<Says("A"), BreakStmt>>),
                SwitchCase(Lit(1), <<Says("B")>>)>>)>>),
      FuncDecl(Type("void"), "through", <<Param(Type("int"), "x")>>,
          <<SwitchStmt(Var("x"),
              <<SwitchCase(None, <<Says("A")>>),
                SwitchCase(Tag(1), <<Says("B")>>)>>)>>),
      FuncDecl(Type("void"), "lazy", <<Param(Type("int"), "x")>>,
          <<SwitchStmt(Var("x"),
              <<SwitchCase(Tag(1), <<Says("a")>>),
                SwitchCase(Tag(2), <<Says("b"), BreakStmt>>),
                SwitchCase(Tag(3), <<Says("c")>>),
                SwitchCase(None, <<Says("d")>>),
                SwitchCase(Tag(4), <<Says("e")>>)>>)>>)>>
DefaultsArgs == 0..5
DefaultsEntries ==
    {Entry(f, IntArgs(<<x>>)) : f \in {"first", "through", "lazy"}, x \in DefaultsArgs}

(***************************************************************************)
(* incdec: one of ++x, --x, x++, x-- applied to one lvalue; order = <<op,   *)
(* "prefix" or "postfix", target>>.  run stores its argument in the lvalue, *)
(* keeps the value of the expression in got and returns what the lvalue    *)
(* holds afterwards.                                                       *)
(*   class Cell { int n; }                                                 *)
(*   int g; Cell c; array<int> xs(2); int got;                             *)
(*   int run(int x) { T = x; got = ++T; return T; }                        *)
(***************************************************************************)
IncDecTargets == {"param", "global", "member", "element"}
IncDecTarget(t) ==
    CASE t = "param" -> Var("x")
      [] t = "global" -> Var("g")
      [] t = "member" -> MemberExpr(Var("c"), "n")
      [] t = "element" -> IndexExpr(Var("xs"), Lit(1))
IncDecProgram(s) ==
    <<ClassDecl("Cell", <<VarDecl(Type("int"), "n", None)>>),
      VarDecl(Type("int"), "g", None),
      VarDecl(Type("Cell"), "c", None),
      ArrayDecl(ArrayType("int"), "xs", Lit(2)),
      VarDecl(Type("int"), "got", None),
      FuncDecl(Type("int"), "run", <<Param(Type("int"), "x")>>,
          <<Assign(IncDecTarget(s.order[3]), Var("x")),
            Assign(Var("got"),
                   UnaryExpr(s.order[1], IncDecTarget(s.order[3]), s.order[2] = "prefix")),
            ReturnStmt(IncDecTarget(s.order[3]))>>)>>
IncDecInts == {MinInt32, -1, 0, 5, MaxInt32}
IncDecFloats == {<<3, 2, 0>>, <<-1, 2, 0>>, Num(0)}
IncDecEntries ==
    {Entry("run", <<INT(Num(n))>>) : n \in IncDecInts}
        \cup {Entry("run", <<FLOAT(x)>>) : x \in IncDecFloats}
IncDecScripts ==
    {Script("incdec", <<op, fix, t>>) :
        op \in {"++", "--"}, fix \in {"prefix", "postfix"}, t \in IncDecTargets}

(***************************************************************************)
(* twice: increments and compound assignments whose target has a side      *)
(* effect.                                                                 *)
(*   class Cell { int n; }                                                 *)
(*   int i; Cell c; array<int> xs(3);                                      *)
(*   array<int> obj() { G_Print("o"); return xs; }                         *)
(*   int idx() { G_Print("i"); return 1; }                                 *)
(*   Cell pick() { G_Print("p"); return c; }                               *)
(*   int val() { G_Print("v"); return 5; }                                 *)
(*   int step(int k) { i = 0; c.n = 0; xs[0] = 10; xs[1] = 20; xs[2] = 30; *)
(*     if (k == 1) return xs[i++]++;     if (k == 2) return ++xs[i++];     *)
(*     if (k == 3) return obj()[idx()]++; if (k == 4) return pick().n++;   *)
(*     if (k == 5) return xs[i++] += 5;                                    *)
(*     if (k == 6) return obj()[idx()] += val();                           *)
(*     if (k == 7) return pick().n += val();  return 0; }                  *)
(***************************************************************************)
Saying(t, type, name, result) ==
    FuncDecl(type, name, <<>>, <<Says(t), ReturnStmt(result)>>)
TwiceSteps ==
    <<PostInc(IndexExpr(Var("xs"), PostInc(Var("i")))),
      UnaryExpr("++", IndexExpr(Var("xs"), PostInc(Var("i"))), TRUE),
      PostInc(IndexExpr(CallFn("obj", <<>>), CallFn("idx", <<>>))),
      PostInc(MemberExpr(CallFn("pick", <<>>), "n")),
      AssignExpr(IndexExpr(Var("xs"), PostInc(Var("i"))), "+=", Lit(5)),
      AssignExpr(IndexExpr(CallFn("obj", <<>>), CallFn("idx", <<>>)), "+=",
                 CallFn("val", <<>>)),
      AssignExpr(MemberExpr(CallFn("pick", <<>>), "n"), "+=", CallFn("val", <<>>))>>
TwiceProgram ==
    <<ClassDecl("Cell", <<VarDecl(Type("int"), "n", None)>>),
      VarDecl(Type("int"), "i", None),
      VarDecl(Type("Cell"), "c", None),
      ArrayDecl(ArrayType("int"), "xs", Lit(3)),
      Saying("o", ArrayType("int"), "obj", Var("xs")),
      Saying("i", Type("int"), "idx", Lit(1)),
      Saying("p", Type("Cell"), "pick", Var("c")),
      Saying("v", Type("int"), "val", Lit(5)),
      FuncDecl(Type("int"), "step", K1,
          <<Assign(Var("i"), Lit(0)),
            Assign(MemberExpr(Var("c"), "n"), Lit(0)),
            Assign(IndexExpr(Var("xs"), Lit(0)), Lit(10)),
            Assign(IndexExpr(Var("xs"), Lit(1)), Lit(20)),
            Assign(IndexExpr(Var("xs"), Lit(2)), Lit(30))>>
          \o [k \in 1..Len(TwiceSteps) |-> When(k, <<ReturnStmt(TwiceSteps[k])>>)]
          \o <<ReturnStmt(Lit(0))>>)>>
TwiceEntries == {Entry("step", IntArgs(<<k>>)) : k \in 0..Len(TwiceSteps)}

(***************************************************************************)
(* writes: indexed assignments to a global array of two elements.          *)
(*   array<int> xs(2);                                                     *)
(*   int write(int i, int v) { xs[i] = v; return 0; }                      *)
(*   int add(int i, int v) { xs[i] += v; return 0; }                       *)
(***************************************************************************)
IV == <<Param(Type("int"), "i"), Param(Type("int"), "v")>>
WritesProgram ==
    <<ArrayDecl(ArrayType("int"), "xs", Lit(2)),
      FuncDecl(Type("int"), "write", IV,
          <<Assign(IndexExpr(Var("xs"), Var("i")), Var("v")), ReturnStmt(Lit(0))>>),
      FuncDecl(Type("int"), "add", IV,
          <<ExprStmt(AssignExpr(IndexExpr(Var("xs"), Var("i")), "+=", Var("v"))),
            ReturnStmt(Lit(0))>>)>>
WritesEntries ==
    {Entry(f, IntArgs(<<i, 7>>)) : f \in {"write", "add"}, i \in -1..MaxLen}

(***************************************************************************)
(* create: classes whose field initializers and constructors show when and *)
(* where they are evaluated.                                               *)
(*   int seq = 0; int base = 100; int p = 7;                               *)
(*   int next() { seq++; return seq; }                                     *)
(*   class Order { int a = next(); Order() { seen = z; n = 5; }            *)
(*     int b = next(); int seen; int z = 9; int n; }                       *)
(*   class Shadow { int base = 5; int c = base + 1; }                      *)
(*   class Arg { int v = p; int got; Arg(int p) { got = p; } }             *)
(*   class Bad { int q = 1; int r = q; }                                   *)
(*   Order first;                                                          *)
(*   Order makeOrder() { return new Order(); }   ... makeShadow, makeBad   *)
(*   Arg makeArg(int k) { return new Arg(k); }                             *)
(*   Nope makeNope() { return new Nope(); }                                *)
(***************************************************************************)
CreateClasses ==
    <<ClassDecl("Order", <<VarDecl(Type("int"), "a", CallFn("next", <<>>)),
                           FuncDecl(None, "Order", <<>>,
                               <<Assign(Var("seen"), Var("z")), Assign(Var("n"), Lit(5))>>),
                           VarDecl(Type("int"), "b", CallFn("next", <<>>)),
                           VarDecl(Type("int"), "seen", None),
                           VarDecl(Type("int"), "z", Lit(9)),
                           VarDecl(Type("int"), "n", None)>>),
      ClassDecl("Shadow", <<VarDecl(Type("int"), "base", Lit(5)),
                            VarDecl(Type("int"), "c", BinaryExpr(Var("base"), "+", Lit(1)))>>),
      ClassDecl("Arg", <<VarDecl(Type("int"), "v", Var("p")),
                         VarDecl(Type("int"), "got", None),
                         FuncDecl(None, "Arg", <<Param(Type("int"), "p")>>,
                             <<Assign(Var("got"), Var("p"))>>)>>),
      ClassDecl("Bad", <<VarDecl(Type("int"), "q", Lit(1)),
                         VarDecl(Type("int"), "r", Var("q"))>>)>>
Maker(class) ==
    FuncDecl(Type(class), "make" \o class, <<>>, <<ReturnStmt(NewExpr(class, <<>>))>>)
CreateProgram ==
    <<VarDecl(Type("int"), "seq", Lit(0)),
      VarDecl(Type("int"), "base", Lit(100)),
      VarDecl(Type("int"), "p", Lit(7)),
      FuncDecl(Type("int"), "next", <<>>,
          <<Do(PostInc(Var("seq"))), ReturnStmt(Var("seq"))>>)>>
    \o CreateClasses \o
    <<VarDecl(Type("Order"), "first", None),
      Maker("Order"), Maker("Shadow"), Maker("Bad"), Maker("Nope"),
      FuncDecl(Type("Arg"), "makeArg", K1, <<ReturnStmt(NewExpr("Arg", <<Var("k")>>))>>)>>
CreateEntries ==
    {Entry("make" \o class, <<>>) : class \in {"Order", "Shadow", "Bad", "Nope"}}
        \cup {Entry("makeArg", IntArgs(<<k>>)) : k \in 1..3}

(***************************************************************************)
(* clobber: methods whose parameter or local has the name of a field.      *)
(*   class Box { int v = 1; int w = 2;                                     *)
(*     int byParam(int v) { return v; }                                    *)
(*     void byParamSet(int v) { v = v + 10; }                              *)
(*     int byLocal(int k) { int w = k; w = w * 2; return 0; }              *)
(*     int nested(int k) { { int w = k; } return w; }                      *)
(*     int viaThis(int v) { return this.v; } }                             *)
(*   Box b;                                                                *)
(*   int byParam(int k) { return b.byParam(k); }   ... one per method      *)
(***************************************************************************)
V1 == <<Param(Type("int"), "v")>>
BoxMethods ==
    <<FuncDecl(Type("int"), "byParam", V1, <<ReturnStmt(Var("v"))>>),
      FuncDecl(Type("void"), "byParamSet", V1,
          <<Assign(Var("v"), BinaryExpr(Var("v"), "+", Lit(10)))>>),
      FuncDecl(Type("int"), "byLocal", K1,
          <<VarDecl(Type("int"), "w", Var("k")),
            Assign(Var("w"), BinaryExpr(Var("w"), "*", Lit(2))),
            ReturnStmt(Lit(0))>>),
      FuncDecl(Type("int"), "nested", K1,
          <<Block(<<VarDecl(Type("int"), "w", Var("k"))>>), ReturnStmt(Var("w"))>>),
      FuncDecl(Type("int"), "viaThis", V1, <<ReturnStmt(MemberExpr(Var("this"), "v"))>>)>>
ClobberProgram ==
    <<ClassDecl("Box", <<VarDecl(Type("int"), "v", Lit(1)),
                         VarDecl(Type("int"), "w", Lit(2))>> \o BoxMethods),
      VarDecl(Type("Box"), "b", None)>>
    \o [i \in 1..Len(BoxMethods) |->
           FuncDecl(Type("int"), BoxMethods[i].name, K1,
               <<ReturnStmt(CallOn(Var("b"), BoxMethods[i].name, <<Var("k")>>))>>)]
ClobberArgs == 3..5
ClobberEntries ==
    {Entry(BoxMethods[i].name, IntArgs(<<k>>)) : i \in 1..Len(BoxMethods), k \in ClobberArgs}

(***************************************************************************)
(* nulls: two of the values below compared by == and by !=; order =        *)
(* <<i, j>>.                                                               *)
(*   class Cell { int n; }  Cell obj;                                      *)
(*   bool eq() { Cell@ nh; Cell@ nh2; @nh2 = null; Cell@ h; @h = @obj;     *)
(*     int zero = 0; float fzero = 0.0; bool no = false; string empty = "";*)
(*     return <value i> == <value j>; }                                    *)
(***************************************************************************)
NullSubjects ==
    <<NullLiteral, Var("nh"), Var("nh2"), Var("h"), Var("obj"), Var("zero"),
      Var("fzero"), Var("no"), Var("empty")>>
NullCompare(name, op, s) ==
    FuncDecl(Type("bool"), name, <<>>,
        <<VarDecl(HandleType("Cell"), "nh", None),
          VarDecl(HandleType("Cell"), "nh2", None),
          Do(HandleAssignExpr(Var("nh2"), NullLiteral)),
          VarDecl(HandleType("Cell"), "h", None),
          Do(HandleAssignExpr(Var("h"), Var("obj"))),
          VarDecl(Type("int"), "zero", Lit(0)),
          VarDecl(Type("float"), "fzero", FloatLiteral(Num(0))),
          VarDecl(Type("bool"), "no", BoolLiteral(FALSE)),
          VarDecl(Type("string"), "empty", StringLiteral("")),
          ReturnStmt(BinaryExpr(NullSubjects[s.order[1]], op, NullSubjects[s.order[2]]))>>)
NullsProgram(s) ==
    <<ClassDecl("Cell", <<VarDecl(Type("int"), "n", None)>>),
      VarDecl(Type("Cell"), "obj", None),
      NullCompare("eq", "==", s), NullCompare("ne", "!=", s)>>
NullsEntries == {Entry(f, <<>>) : f \in {"eq", "ne"}}
NullsScripts ==
    {Script("nulls", <<i, j>>) : i, j \in 1..Len(NullSubjects)}

Program(s) ==
    CASE s.name = "counter" -> CounterProgram
      [] s.name = "handles" -> HandlesProgram(s)
      [] s.name = "methods" -> MethodsProgram(s)
      [] s.name = "values" -> ValuesProgram(s)
      [] s.name = "shortcircuit" -> ShortCircuitProgram
      [] s.name = "forloop" -> ForLoopProgram
      [] s.name = "switch" -> SwitchProgram
      [] s.name = "arrays" -> ArraysProgram(s)
      [] s.name \in {"forward", "forward failing"} -> ForwardProgram(s)
      [] s.name = "arith" -> ArithProgram(s)
      [] s.name = "unary" -> UnaryProgram
      [] s.name = "equality" -> EqualityProgram
      [] s.name \in {"late", "late at load"} -> LateProgram(s)
      [] s.name = "signals" -> SignalsProgram
      [] s.name = "frames" -> FramesProgram
      [] s.name = "arrayops" -> ArrayOpsProgram(s)
      [] s.name = "construct" -> ConstructProgram
      [] s.name = "defaults" -> DefaultsProgram
      [] s.name = "incdec" -> IncDecProgram(s)
      [] s.name = "twice" -> TwiceProgram
      [] s.name = "writes" -> WritesProgram
      [] s.name = "create" -> CreateProgram
      [] s.name = "clobber" -> ClobberProgram
      [] s.name = "nulls" -> NullsProgram(s)
      [] OTHER -> <<>>

Entries(s) ==
    CASE s.name = "counter" -> CounterEntries
      [] s.name = "handles" -> HandlesEntries
      [] s.name = "methods" -> MethodsEntries
      [] s.name = "values" -> ValuesEntries
      [] s.name = "shortcircuit" -> ShortCircuitEntries
      [] s.name = "forloop" -> ForLoopEntries
      [] s.name = "switch" -> SwitchEntries
      [] s.name = "arrays" -> ArraysEntries
      [] s.name \in {"forward", "forward failing"} -> ForwardEntries
      [] s.name = "arith" -> ArithEntries(s.order[1])
      [] s.name = "unary" -> UnaryEntries
      [] s.name = "equality" -> EqualityEntries
      [] s.name \in {"late", "late at load"} -> LateEntries
      [] s.name = "signals" -> SignalsEntries
      [] s.name = "frames" -> FramesEntries
      [] s.name = "arrayops" -> ArrayOpsEntries
      [] s.name = "construct" -> ConstructEntries
      [] s.name = "defaults" -> DefaultsEntries
      [] s.name = "incdec" -> IncDecEntries
      [] s.name = "twice" -> TwiceEntries
      [] s.name = "writes" -> WritesEntries
      [] s.name = "create" -> CreateEntries
      [] s.name = "clobber" -> ClobberEntries
      [] s.name = "nulls" -> NullsEntries
      [] OTHER -> {}

(***************************************************************************)
(* The host's operations on a ScriptEngine (bindings.ts, index.ts)         *)
(***************************************************************************)
MaxCalls == 2

\* engine.load(source); the lexer and the parser are not modelled: the
\* program is the AST of the script
\* the interpreter the engine holds once an operation ended as r
Keeps(r) ==
    /\ globals' = r.m.envs[GlobalEnv].vars
    /\ classDefs' = r.m.classDefs
    /\ heap' = r.m.heap
    /\ out' = r.m.out

Loaded(r) ==
    /\ Keeps(r)
    /\ phase' = IF r.sig = "ok" THEN "loaded" ELSE "failed"
    /\ last' = [op |-> "load", sig |-> r.sig, result |-> r.v]

Load ==
    /\ phase = "new"
    /\ Loaded(execute(Program(script), 1, Machine(FALSE)))
    /\ UNCHANGED <<script, ncalls>>

\* engine.registerFunction("G_Print", msg => console.log(stringify(msg)))
RegisterFunction ==
    /\ "G_Print" \notin DOMAIN globals
    /\ globals' = Put(globals, "G_Print",
                      NativeFn("G_Print", [name |-> "G_Print", tag |-> "host"]))
    /\ UNCHANGED <<classDefs, heap, out, script, phase, ncalls, last>>

\* engine.call(name, args), after a load that succeeded or that threw; an
\* exception reaches the host as sig
Called(e, r) ==
    /\ Keeps(r)
    /\ last' = [op |-> "call", sig |-> r.sig, name |-> e.name,
                args |-> e.args, result |-> r.v]

Call(e) ==
    /\ phase \in {"loaded", "failed"}
    /\ ncalls < MaxCalls
    /\ Called(e, callFunction(e.name, e.args, Machine(FALSE)))
    /\ ncalls' = ncalls + 1
    /\ UNCHANGED <<script, phase>>

Next ==
    \/ Load
    \/ RegisterFunction
    \/ \E e \in Entries(script) : Call(e)

\* the scripts about objects, methods and handles
ObjectScripts ==
    {Script("counter", <<>>)} \cup HandlesScripts \cup MethodsScripts \cup ValuesScripts
InitObjects == EngineInit /\ script \in ObjectScripts
SpecObjects == InitObjects /\ [][Next]_vars

\* the scripts about control flow
ControlScripts ==
    {Script(name, <<>>) : name \in {"shortcircuit", "forloop", "switch"}}
InitControl == EngineInit /\ script \in ControlScripts
SpecControl == InitControl /\ [][Next]_vars

\* the scripts about arrays
InitArrays == EngineInit /\ script \in ArraysScripts \cup ArrayOpsScripts
SpecArrays == InitArrays /\ [][Next]_vars

\* the scripts about the order of declarations
InitForward == EngineInit /\ script \in ForwardScripts
SpecForward == InitForward /\ [][Next]_vars

\* the scripts about numbers
ArithmeticScripts == ArithScripts \cup {Script("unary", <<>>)}
InitArithmetic == EngineInit /\ script \in ArithmeticScripts
SpecArithmetic == InitArithmetic /\ [][Next]_vars

\* the scripts about values and declarations
ValueScripts == {Script("equality", <<>>), Script("construct", <<>>)} \cup NullsScripts
InitValues == EngineInit /\ script \in ValueScripts
SpecValues == InitValues /\ [][Next]_vars

\* the scripts about function calls
FunctionScripts == LateScripts \cup {Script("signals", <<>>), Script("frames", <<>>)}
InitFunctions == EngineInit /\ script \in FunctionScripts
SpecFunctions == InitFunctions /\ [][Next]_vars

\* the scripts about the order of the labels of a switch
InitSwitch == EngineInit /\ script = Script("defaults", <<>>)
SpecSwitch == InitSwitch /\ [][Next]_vars

\* the scripts about assignment targets
LvalueScripts == IncDecScripts \cup {Script("twice", <<>>), Script("writes", <<>>)}
InitLvalues == EngineInit /\ script \in LvalueScripts
SpecLvalues == InitLvalues /\ [][Next]_vars

\* the scripts about the objects of a class
ClassScripts == {Script("create", <<>>), Script("clobber", <<>>)}
InitClasses == EngineInit /\ script \in ClassScripts
SpecClasses == InitClasses /\ [][Next]_vars

\* the messages G_Print logged, oldest first
Printed == [i \in 1..Len(out) |-> out[i][2]]
LastPrinted(n) == SubSeq(Printed, Len(out) - n + 1, Len(out))
IntString(v) == NumToString(INT(v).value)

\* C1: on the counter program (a class with an int field, a constructor
\* that assigns it by bare identifier and a method that increments it by
\* bare identifier), new TestClass(n) followed by k calls of incrementIt()
\* leaves n + k (in the 32-bit Int arithmetic of the language) in the
\* object's field and reads it back: main(n), with three increments,
\* returns n + 3, so main(12) returns Int(15); run(n, k) returns n + k; and
\* mainTest(n) prints n + 1, n + 2, n + 3.
C1_CounterAdds ==
    last.op = "call" /\ script.name = "counter" =>
        LET n == last.args[1].value
            k == IF last.name = "run" THEN last.args[2].value ELSE Num(3)
            sum == INT(NumAdd(n, k))
        IN /\ last.name \in {"main", "run"} =>
                /\ last.sig = "ok"
                /\ last.result = sum
           /\ last.sig = "ok" =>
                /\ heap[Len(heap)].typeName = "TestClass"
                /\ heap[Len(heap)].fields["int1lmao"] = sum
           /\ last.name = "mainTest" /\ last.sig = "ok" =>
                LastPrinted(3) = <<IntString(NumAdd(n, Num(1))),
                                   IntString(NumAdd(n, Num(2))),
                                   IntString(NumAdd(n, Num(3)))>>
           /\ last.name = "mainTest" /\ last.sig # "ok" =>
                /\ last.sig = "RuntimeError"
                /\ last.result = "Undefined variable"

\* main(12) returned Int(15) and the new object holds 15
C1_Witness ==
    /\ last.op = "call" /\ script.name = "counter"
    /\ last.name = "main"
    /\ last.args = <<INT(Num(12))>>
    /\ last.sig = "ok"
    /\ last.result = INT(Num(15))
    /\ heap[Len(heap)].fields["int1lmao"] = INT(Num(15))

\* C2 as stated: all handles produced from an object compare equal, and a
\* field write through one of them is observed by every later read through
\* any other handle and through the original variable, wherever the write
\* and the read execute: same() is true, test(v) reads back v, and a later
\* read() returns the value last written.
C2_HandleWritesObserved ==
    script.name = "handles" /\ last.op = "call" =>
        /\ last.sig = "ok"
        /\ last.name = "same" => last.result = BOOL(TRUE)
        /\ last.name = "test" => last.result = last.args[1]
        /\ last.name = "read" => last.result = globals["wrote"]

\* a write h1.n = 9 made inside a method of the object was not observed by
\* the read of h2.n after the method returned
C2_Witness ==
    /\ script = Script("handles", <<1, 2, 3>>)
    /\ Context(script) = "write in method"
    /\ last.op = "call" /\ last.name = "test"
    /\ last.args = <<INT(Num(9))>>
    /\ last.sig = "ok"
    /\ last.result = INT(Num(0))
    /\ heap[globals["a"].ref].fields["n"] = INT(Num(0))

\* C3 as stated: running a method by field snapshot and sync gives the
\* same returned value and the same fields of the receiver as resolving
\* bare identifiers directly against this.fields, for every method body,
\* also one that writes this.x = e or calls another method of the same
\* object through this or through a handle: every call of the methods
\* script ends as it does under the direct semantics.
C3_SnapshotEqualsDirect ==
    [][script.name = "methods" /\ last'.op = "call" /\ ncalls' = ncalls + 1 =>
            LET direct == callFunction(last'.name, last'.args, Machine(TRUE))
            IN /\ last'.sig = direct.sig
               /\ last'.result = direct.v
               /\ heap' = direct.m.heap]_vars

\* p.setThis(7) returned and p.x is still 1
C3_Witness ==
    /\ script = Script("methods", <<"setThis">>)
    /\ last.op = "call" /\ last.name = "go"
    /\ last.args = <<INT(Num(7))>>
    /\ last.sig = "ok"
    /\ heap[globals["p"].ref].fields["x"] = INT(Num(1))

\* C4 as stated: after  T b = a;  or  b = a;  with a an object or an
\* array, a mutation made through b (b.n = v, b[0] = v, b.push(v),
\* b.removeAt(v)) does not change what is read through a: a.n and a[0] are
\* still 5 and a.size() is still 2.
C4_PlainCopyNotShared ==
    script.name = "values" /\ last.op = "call" =>
        /\ last.sig = "ok"
        /\ last.name \in {"field", "element"} => last.result = INT(Num(5))
        /\ last.name \in {"push", "removeAt"} => last.result = INT(Num(2))

\* after  Cell b = a; b.n = 1;  the read a.n gave 1
C4_Witness ==
    /\ script = Script("values", <<"declaration">>)
    /\ last.op = "call" /\ last.name = "field"
    /\ last.args = <<INT(Num(1))>>
    /\ last.sig = "ok"
    /\ last.result = INT(Num(1))

\* a step that is a call by the host, and what G_Print logged during it
CallStep == last'.op = "call" /\ ncalls' = ncalls + 1
Logged == [i \in 1..(Len(out') - Len(out)) |-> out'[Len(out) + i][2]]
Tags(o) == [i \in 1..Len(o) |-> o[i][2]]

\* C5: in L && R the right operand is evaluated exactly when L is truthy,
\* in L || R exactly when L is falsy; when it is evaluated the counter it
\* increments goes up by one and the result is its value; when it is
\* skipped nothing changes (the counter, the other globals, the heap, the
\* log) and the result is Bool(false) for && and Bool(true) for ||.  At
\* load,  false && side(1)  and  true || side(1)  leave the counter at 0.
C5_ShortCircuit ==
    [][script.name = "shortcircuit" =>
        /\ last'.op = "load" /\ phase = "new" =>
                /\ phase' = "loaded"
                /\ globals'["c"] = INT(Num(0))
                /\ globals'["r"] = BOOL(FALSE)
                /\ globals'["q"] = BOOL(TRUE)
        /\ CallStep =>
                LET left == Lefts[last'.args[1].value[1]]
                    and == last'.name = "andL"
                IN /\ last'.sig = "ok"
                   /\ IF and = left.truthy
                        THEN /\ globals'["c"] = INT(NumAdd(globals["c"].value, Num(1)))
                             /\ last'.result = last'.args[2]
                        ELSE /\ globals' = globals
                             /\ heap' = heap
                             /\ out' = out
                             /\ last'.result = BOOL(~and)]_vars

\* the first call was  0 && side(7): it gave Bool(false) and the counter is
\* still 0
C5_Witness ==
    /\ script.name = "shortcircuit"
    /\ ncalls = 1
    /\ last.op = "call" /\ last.name = "andL"
    /\ last.args = IntArgs(<<1, 7>>)
    /\ last.result = BOOL(FALSE)
    /\ globals["c"] = INT(Num(0))

\* what loop(n, at, mode) must log from iteration i on: "c" the condition,
\* "b" and "e" the start and the normal end of the body, "u" the update
\* clause, "x" the statement after the loop
RECURSIVE LoopTrace(_, _, _, _)
LoopTrace(i, n, at, mode) ==
    IF i >= n THEN <<"c", "x">>
    ELSE IF i # at \/ mode = "normal"
        THEN <<"c", "b", "e", "u">> \o LoopTrace(i + 1, n, at, mode)
    ELSE IF mode = "continue" THEN <<"c", "b", "u">> \o LoopTrace(i + 1, n, at, mode)
    ELSE IF mode = "break" THEN <<"c", "b", "x">>
    ELSE <<"c", "b">>

\* C6: in a for loop every iteration whose body ends normally or with
\* continue is followed by exactly one evaluation of the update clause and
\* then the next condition check; an iteration ended by break, return or a
\* runtime error is followed by no evaluation of the update clause (after
\* break the statement after the loop runs, after return and after an
\* error nothing of the function runs).
C6_ForUpdate ==
    [][script.name = "forloop" /\ CallStep /\ "G_Print" \in DOMAIN globals =>
        LET n == last'.args[1].value[1]
            at == last'.args[2].value[1]
            mode == Modes[last'.args[3].value[1]]
        IN /\ Logged = LoopTrace(0, n, at, mode)
           /\ SubSeq(out', 1, Len(out)) = out
           /\ last'.sig = IF mode = "error" /\ at < n THEN "RuntimeError" ELSE "ok"]_vars

\* loop(2, 0, continue): the first iteration ended with continue, the
\* update clause ran once and the loop went on
C6_Witness ==
    /\ script.name = "forloop"
    /\ ncalls = 1
    /\ last.op = "call" /\ last.args = IntArgs(<<2, 0, 2>>)
    /\ last.sig = "ok"
    /\ Tags(out) = <<"c", "b", "u", "c", "b", "e", "u", "c", "x">>

\* the bodies g runs from case i on, and from its first matching case (a
\* case whose label equals x, or default)
RECURSIVE BodiesFrom(_)
BodiesFrom(i) ==
    IF i > Len(GCases) THEN <<>>
    ELSE IF GCases[i].break THEN <<GCases[i].tag>>
    ELSE <<GCases[i].tag>> \o BodiesFrom(i + 1)
Matching(x) ==
    {i \in 1..Len(GCases) : GCases[i].label = None \/ GCases[i].label = Lit(x)}
GTrace(x) ==
    IF Matching(x) = {} THEN <<>>
    ELSE BodiesFrom(CHOOSE i \in Matching(x) : \A j \in Matching(x) : i <= j)

\* C7: a switch evaluates its discriminant once, runs no body before the
\* first matching case (default matches where it stands), and from there
\* runs every body in source order until a break; return leaves the
\* function.  f(1), f(2), f(3) are 20, 20, 30 and every other f(x) is 0.
C7_SwitchFallThrough ==
    [][script.name = "switch" /\ CallStep =>
        LET x == last'.args[1].value[1]
        IN /\ last'.name = "f" =>
                /\ last'.sig = "ok"
                /\ last'.result = INT(Num(IF x \in {1, 2} THEN 20
                                          ELSE IF x = 3 THEN 30 ELSE 0))
                /\ out' = out
           /\ last'.name = "g" /\ "G_Print" \in DOMAIN globals =>
                /\ last'.sig = "ok"
                /\ Logged = <<"x">> \o GTrace(x) \o <<"end">>
                /\ SubSeq(out', 1, Len(out)) = out]_vars

\* g(1) entered case 1, fell through into case 2 and left at its break
C7_Witness ==
    /\ script.name = "switch"
    /\ ncalls = 1
    /\ last.op = "call" /\ last.name = "g"
    /\ last.args = IntArgs(<<1>>)
    /\ Tags(out) = <<"x", "1", "2", "end">>

\* C8: reading xs[i] on the array of length n raises the RuntimeError
\* "Array index out of bounds" for every i < 0 and every i >= n, returns
\* element i for every integer 0 <= i < n, and in both cases leaves the
\* array, the rest of the heap and the globals as they were.
C8_ArrayReadBounds ==
    [][script.name = "arrays" /\ CallStep =>
        LET n == script.order[1]
            i == last'.args[1].value
            elements == heap[globals["xs"].ref].elements
        IN /\ Len(elements) = n
           /\ IF NumLess(i, Num(0)) \/ ~NumLess(i, Num(n))
                THEN /\ last'.sig = "RuntimeError"
                     /\ last'.result = "Array index out of bounds"
                ELSE /\ last'.sig = "ok"
                     /\ last'.result = elements[i[1] + 1]
                     /\ last'.result = INT(Num(10 + i[1]))
           /\ heap' = heap
           /\ globals' = globals]_vars

\* xs has the two elements 10, 11 and reading xs[2] raised the error
C8_Witness ==
    /\ script = Script("arrays", <<2>>)
    /\ last.op = "call" /\ last.name = "read"
    /\ last.args = IntArgs(<<2>>)
    /\ last.sig = "RuntimeError"
    /\ heap[globals["xs"].ref].elements = <<INT(Num(10)), INT(Num(11))>>

\* C9: whatever the order of the declarations, every class and function is
\* registered before any global initializer runs: the load succeeds with
\* g0 = first() = 42 (first calls second, second instantiates Late) and
\* lt = new Late(5); first() called afterwards returns 42; and when the
\* first initializer fails, the load throws with all classes and functions
\* registered all the same.
C9_TwoPassRegistration ==
    /\ script.name = "forward" /\ phase # "new" =>
            /\ phase = "loaded"
            /\ globals["g0"] = INT(Num(42))
            /\ heap[globals["lt"].ref].typeName = "Late"
            /\ heap[globals["lt"].ref].fields["k"] = INT(Num(5))
    /\ script.name = "forward failing" /\ phase # "new" =>
            /\ phase = "failed"
            /\ {"first", "second", "Late"} \subseteq DOMAIN globals
            /\ "Late" \in DOMAIN classDefs
    /\ script.name \in {"forward", "forward failing"} /\ last.op = "call" =>
            /\ last.sig = "ok"
            /\ last.result = INT(Num(IF last.name = "first" THEN 42 ELSE 41))

\* the program with both global variables first, then first, second and
\* the class last was loaded
C9_Witness ==
    /\ script = Script("forward", <<1, 2, 3, 4, 5>>)
    /\ phase = "loaded"
    /\ globals["g0"] = INT(Num(42))
    /\ last.op = "load"

(***************************************************************************)
(* The marshalling round trip  unwrap(wrapNative(x))  over host values.    *)
(***************************************************************************)
MaxHostLen == 2

\* 2^31 and 2^32 + 5: integers of the host that 32 bits do not hold
HostBig == {<<MinInt32, 1, 1>>, <<5, 1, 1>>, <<-7, 1, -1>>}
HostInts == {Num(0), Num(-1), Num(12), Num(MaxInt32), Num(MinInt32)}
HostFloats == {<<5, 2, 0>>, <<-1, 2, 0>>}

HostScalars ==
    {HNull, HBool(TRUE), HBool(FALSE), HStr(""), HStr("x=3")}
        \cup {HNum(v) : v \in HostInts \cup HostBig \cup HostFloats}

SeqsUpTo(S, n) == UNION {[1..k -> S] : k \in 0..n}

HostFlatArrays == {HArr(s) : s \in SeqsUpTo(HostScalars, MaxHostLen)}
HostNestedArrays ==
    {HArr(<<a>>) : a \in HostFlatArrays}
        \cup {HArr(<<x, a>>) : x \in {HNum(<<5, 2, 0>>), HNum(<<5, 1, 1>>)}, a \in HostFlatArrays}

HostValues == HostScalars \cup HostFlatArrays \cup HostNestedArrays

\* the host calls interp.wrapNative(x) and then interp.unwrap on what it got
Marshal(x) ==
    /\ phase = "new"
    /\ last = NoOp
    /\ LET w == wrapNative(heap, x)
       IN /\ heap' = w[1]
          /\ last' = [op |-> "marshal", result |-> unwrap(w[1], w[2]), arg |-> x,
                      wrapped |-> w[2]]
    /\ UNCHANGED <<globals, classDefs, out, script, phase, ncalls>>

InitMarshal == EngineInit /\ script = Script("none", <<>>)
NextMarshal == \E x \in HostValues : Marshal(x)
SpecMarshal == InitMarshal /\ [][NextMarshal]_vars

\* every number inside a host value is a non-integer or fits in 32 bits
RECURSIVE Fits32(_)
Fits32(x) ==
    CASE x.t = "number" -> ~IsInteger(x.v) \/ x.v[3] = 0
      [] x.t = "array" -> \A i \in 1..Len(x.v) : Fits32(x.v[i])
      [] OTHER -> TRUE

RECURSIVE HostDepth(_)
HostDepth(x) ==
    IF x.t # "array" THEN 0
    ELSE IF x.v = <<>> THEN 1
    ELSE 1 + CHOOSE d \in {HostDepth(x.v[i]) : i \in 1..Len(x.v)} :
                \A i \in 1..Len(x.v) : HostDepth(x.v[i]) <= d

\* C10 as stated: unwrap(wrapNative(x)) = x for null, booleans, strings,
\* integers of any magnitude, non-integers and arrays of them.
C10_RoundTripAnyInteger ==
    last.op = "marshal" => last.result = last.arg

\* C10 amended: unwrap(wrapNative(x)) = x for null, booleans, strings,
\* non-integer numbers, integers in [-2^31, 2^31 - 1] and arrays (nested)
\* of such values; an integer outside that range comes back truncated to
\* 32 bits.
C10_RoundTrip32 ==
    last.op = "marshal" =>
        /\ Fits32(last.arg) => last.result = last.arg
        /\ last.arg.t = "number" /\ IsInteger(last.arg.v)
              => last.result = HNum(Num(last.arg.v[1]))

\* a nested array holding a non-integer and 32-bit integers went round
C10_Witness ==
    /\ last.op = "marshal"
    /\ HostDepth(last.arg) = 2
    /\ Fits32(last.arg)
    /\ last.arg.v[1] = HNum(<<5, 2, 0>>)
    /\ Len(last.arg.v[2].v) = 2
    /\ last.arg.v[2].v[1] = HNum(Num(MaxInt32))
    /\ last.result = last.arg

(***************************************************************************)
(* Numbers: the range of Int, the kind of a result, division by zero       *)
(***************************************************************************)
\* the Int whose number is the integer n, written out
IntOf(n) == [value |-> <<n, 1, 0>>, kind |-> "int"]
FloatOf(x) == [value |-> x, kind |-> "float"]

\* an Int holds a whole number of [-2^31, 2^31 - 1]
InInt32(v) ==
    v.kind = "int" =>
        /\ v.value[2] = 1 /\ v.value[3] = 0
        /\ MinInt32 <= v.value[1] /\ v.value[1] <= MaxInt32

\* x + y of two 32-bit integers, wrapped modulo 2^32 into [-2^31, 2^31 - 1]
WrapSum(x, y) ==
    IF y > 0 /\ x > MaxInt32 - y THEN (x - MaxInt32 - 1) + (y - MaxInt32 - 1)
    ELSE IF y < 0 /\ x < MinInt32 - y THEN (x + MaxInt32 + 1) + (y + MaxInt32 + 1)
    ELSE x + y
\* x - y wrapped; -(-2^31) is 2^31, which is -2^31 modulo 2^32
WrapDiff(x, y) == IF y = MinInt32 THEN WrapSum(x, MinInt32) ELSE WrapSum(x, -y)

\* the last operation was a call of the arith script's binary or compound
\* function for the operator op with two Ints, and it returned
IntCall(op) ==
    /\ last.op = "call" /\ last.sig = "ok"
    /\ script = Script("arith", <<op>>)
    /\ last.name \in {"binary", "compound"}
    /\ last.args[1].kind = "int" /\ last.args[2].kind = "int"

\* the last operation was a call of one of the unary script's functions
\* names with an Int, and it returned
UnaryIntCall(names) ==
    /\ last.op = "call" /\ last.sig = "ok"
    /\ script.name = "unary"
    /\ last.name \in names
    /\ last.args[1].kind = "int"

LeftArg == last.args[1].value[1]
RightArg == last.args[2].value[1]

\* C11: every Int a call returns holds a whole number of [-2^31, 2^31 - 1];
\* a + b, a - b, t += b, t -= b, ++ and -- on Ints give the exact result
\* wrapped modulo 2^32 into that range.
C11_IntWraps ==
    /\ last.op = "call" /\ last.sig = "ok" => InInt32(last.result)
    /\ IntCall("+") => last.result = IntOf(WrapSum(LeftArg, RightArg))
    /\ IntCall("-") => last.result = IntOf(WrapDiff(LeftArg, RightArg))
    /\ UnaryIntCall({"postInc", "preInc"}) => last.result = IntOf(WrapSum(LeftArg, 1))
    /\ UnaryIntCall({"postDec", "preDec"}) => last.result = IntOf(WrapSum(LeftArg, -1))

\* 2147483647 + 1 was evaluated and gave -2147483648; 2147483647 + 2 and
\* ++ on 2147483647 wrapped as well in other calls
C11_Witness ==
    /\ last.op = "call" /\ last.sig = "ok"
    /\ script.name = "unary"
    /\ last.name = "literal"
    /\ last.result = IntOf(MinInt32)

\* the last operation was a call of the arith script's function of one of
\* names for the operator op, and it ended
ArithCall(op, names) ==
    /\ last.op = "call"
    /\ script = Script("arith", <<op>>)
    /\ last.name \in names

\* the left operand is bool(a) in boolBinary and boolCompound
LeftIsBool == last.name \in {"boolBinary", "boolCompound"}
LeftKind == IF LeftIsBool THEN "bool" ELSE last.args[1].kind
LeftNum ==
    IF LeftIsBool THEN Num(IF last.args[1].value = Num(0) THEN 0 ELSE 1)
    ELSE last.args[1].value
RightNum == last.args[2].value

\* l / r of two integers truncated toward zero, r >= 2
TruncPos(l, r) == IF l < 0 /\ l % r # 0 THEN (l \div r) + 1 ELSE l \div r
\* l / r of two 32-bit integers, r # 0, truncated toward zero and wrapped
WrapQuot(l, r) ==
    IF r = 1 THEN l
    ELSE IF r = -1 THEN WrapDiff(0, l)
    ELSE IF r = MinInt32 THEN (IF l = MinInt32 THEN 1 ELSE 0)
    ELSE IF r > 0 THEN TruncPos(l, r)
    ELSE -TruncPos(l, -r)

\* the real-valued result of l op r, truncated toward zero and wrapped to
\* 32 bits: on two integers by integer arithmetic, otherwise on fractions
\* small enough for the exact result to be a number of the model
RealResult(op, l, r) ==
    IF l[2] = 1 /\ r[2] = 1
        THEN CASE op = "+" -> WrapSum(l[1], r[1])
               [] op = "-" -> WrapDiff(l[1], r[1])
               [] op = "*" -> IntMul(l[1], r[1])[1]
               [] op = "/" -> WrapQuot(l[1], r[1])
               [] op = "%" -> IntRem(l[1], r[1])
    ELSE ToInt32_trunc(CASE op = "+" -> NumAdd(l, r)
                         [] op = "-" -> NumSub(l, r)
                         [] op = "*" -> NormQ(l[1] * r[1], l[2] * r[2], 0)
                         [] op = "/" -> NumDiv(l, r)
                         [] op = "%" -> NumMod(l, r))

\* C19 as stated: for + - * / % the result is a Float iff the left operand
\* is a Float and an Int otherwise, whatever the right operand; an Int
\* result is the real-valued result truncated toward zero and wrapped to 32
\* bits (the divisor of / and % not being zero).
C19_LeftKindExact ==
    \A op \in {"+", "-", "*", "/", "%"} :
        ArithCall(op, {"binary", "boolBinary"}) =>
            /\ last.sig = "ok"
            /\ last.result.kind = (IF LeftKind = "float" THEN "float" ELSE "int")
            /\ LeftKind # "float" /\ ~(op \in {"/", "%"} /\ RightNum = Num(0))
                  => last.result = IntOf(RealResult(op, LeftNum, RightNum))

\* 2147483647 * 2147483647 was evaluated: the exact product is
\* 2^62 - 2^32 + 1, which wraps to 1, and the call returned Int 0
C19_Witness ==
    /\ ArithCall("*", {"binary"})
    /\ last.args = <<IntOf(MaxInt32), IntOf(MaxInt32)>>
    /\ RealResult("*", LeftNum, RightNum) = 1
    /\ last.sig = "ok"
    /\ last.result = IntOf(0)

BoolOf(b) == [value |-> b, kind |-> "bool"]

\* the last operation was a call of f on subject k of the equality script
Compared(f, k) ==
    /\ last.op = "call"
    /\ script.name = "equality"
    /\ last.name = f
    /\ last.args[1] = IntOf(k)

\* C12: x == x is true and x != x is false for x an Int, a Float other than
\* NaN, a Bool, a String, null, an object and a handle (bound or null).
C12_EqualityReflexive ==
    \A k \in 1..7 :
        /\ Compared("eq", k) => last.sig = "ok" /\ last.result = BoolOf(TRUE)
        /\ Compared("ne", k) => last.sig = "ok" /\ last.result = BoolOf(FALSE)

\* an object was compared with itself by ==
C12_Witness ==
    /\ Compared("eq", 5)
    /\ heap # <<>>
    /\ last.sig = "ok"
    /\ last.result = BoolOf(TRUE)

(***************************************************************************)
(* Declarations of class-typed variables                                   *)
(***************************************************************************)
StringOf(str) == [value |-> str, kind |-> "string"]

\* what observation k of the construct script finds when every object was
\* instantiated as declared and the handle is null
Observed(k) ==
    CASE k = 1 -> IntOf(0)
      [] k = 2 -> FloatOf(Num(0))
      [] k = 3 -> BoolOf(FALSE)
      [] k = 4 -> StringOf("")
      [] k = 5 -> IntOf(7)
      [] k = 6 -> IntOf(5)
      [] k = 7 -> IntOf(7)
      [] k = 8 -> IntOf(9)
      [] k = 9 -> HANDLE(0)

\* the objects of the heap, by class
ObjectsOf(h, typeName) ==
    Cardinality({i \in 1..Len(h) : h[i].kind = "object" /\ h[i].typeName = typeName})

\* the step is a call of f of the construct script that returned
ConstructCall(f) ==
    /\ script.name = "construct"
    /\ ncalls' = ncalls + 1
    /\ last'.name = f
    /\ last'.sig = "ok"

\* C13: a class-typed variable declared without @ and without initializer,
\* at global level or at statement level, is bound to a new object of the
\* class, on which the constructor has run if the class declares one and
\* whose other fields hold their initializer or the default of their type;
\* declared with @ it is bound to a null handle and no object is made.
C13_DefaultConstruction ==
    [][/\ script.name = "construct" /\ phase = "new" /\ phase' # "new" =>
            /\ phase' = "loaded"
            /\ Len(heap') = 3
            /\ \A c \in {"Plain", "Made", "WithParam"} : ObjectsOf(heap', c) = 1
            /\ globals'["h"] = HANDLE(0)
            /\ globals'["p"].kind = "object" /\ heap'[globals'["p"].ref].typeName = "Plain"
       /\ ConstructCall("global") =>
            /\ heap' = heap
            /\ last'.result = Observed(last'.args[1].value[1])
       /\ ConstructCall("local") =>
            /\ Len(heap') = Len(heap) + 3
            /\ \A c \in {"Plain", "Made", "WithParam"} :
                  ObjectsOf(heap', c) = ObjectsOf(heap, c) + 1
            /\ last'.result = Observed(last'.args[1].value[1])
       /\ ConstructCall("handles") =>
            /\ heap' = heap
            /\ last'.result = HANDLE(0)
       /\ script.name = "construct" /\ ncalls' = ncalls + 1 => last'.sig = "ok"]_vars

\* a Made declared at statement level had its constructor run: m.n is 5,
\* and the heap holds the three global and three local objects
C13_Witness ==
    /\ script.name = "construct"
    /\ last.op = "call" /\ last.name = "local" /\ last.args = <<IntOf(6)>>
    /\ last.result = IntOf(5)
    /\ ncalls = 1
    /\ Len(heap) = 6

(***************************************************************************)
(* Environment (environment.ts), used directly: a chain of MaxScopes       *)
(* scopes, scope i + 1 being a child of scope i.  Every scope binds y, and *)
(* the scopes of D bind x; get, set and define are applied to x.           *)
(***************************************************************************)
MaxScopes == 3

ScopeVars(i, D) ==
    IF i \in D THEN Put(Put(EmptyMap, "y", INT(Num(10 * i))), "x", INT(Num(i)))
    ELSE Put(EmptyMap, "y", INT(Num(10 * i)))
Chain(D) == [i \in 1..MaxScopes |-> [vars |-> ScopeVars(i, D), parent |-> i - 1]]

\* the interpreter's state as far as Environment touches it
Scopes(envs) ==
    [classDefs |-> EmptyMap, heap |-> <<>>, out |-> <<>>, envs |-> envs, direct |-> FALSE]

InitEnvironment ==
    /\ globals = EmptyMap
    /\ classDefs = EmptyMap
    /\ heap = <<>>
    /\ out = <<>>
    /\ phase = "new"
    /\ ncalls = 0
    /\ script = Script("none", <<>>)
    /\ \E D \in SUBSET (1..MaxScopes) :
          last = [op |-> "new Environment", after |-> Chain(D)]

Applied(record) ==
    /\ ncalls < MaxCalls
    /\ ncalls' = ncalls + 1
    /\ last' = record
    /\ UNCHANGED <<globals, classDefs, heap, out, script, phase>>

\* env.get(name)
EnvGet(env, name) ==
    LET r == get(Scopes(last.after), env, name)
    IN Applied([op |-> "get", sig |-> r.sig, name |-> name, env |-> env,
                result |-> r.v, after |-> r.m.envs, before |-> last.after])

\* env.set(name, value)
EnvSet(env, name, value) ==
    Applied([op |-> "set", value |-> value, name |-> name, env |-> env,
             after |-> set(Scopes(last.after), env, name, value).envs,
             before |-> last.after])

\* env.define(name, value)
EnvDefine(env, name, value) ==
    Applied([op |-> "define", value |-> value, name |-> name, env |-> env,
             after |-> define(Scopes(last.after), env, name, value).envs,
             before |-> last.after])

NextEnvironment ==
    \E env \in 1..MaxScopes :
        \/ EnvGet(env, "x")
        \/ \E v \in {7, 8} : EnvSet(env, "x", INT(Num(v)))
        \/ \E v \in {7, 8} : EnvDefine(env, "x", INT(Num(v)))
SpecEnvironment == InitEnvironment /\ [][NextEnvironment]_vars

\* the scopes from env up to the root, innermost first
RECURSIVE Path(_, _)
Path(envs, env) == IF env = 0 THEN <<>> ELSE <<env>> \o Path(envs, envs[env].parent)

\* the scopes of the chain of env that define name, and the innermost one
DefinedIn(envs, env, name) ==
    {i \in 1..Len(Path(envs, env)) : name \in DOMAIN envs[Path(envs, env)[i]].vars}
Innermost(envs, env, name) ==
    Path(envs, env)[CHOOSE i \in DefinedIn(envs, env, name) :
                        \A j \in DefinedIn(envs, env, name) : i <= j]

\* envs with the binding of name in scope env made value, and nothing else
\* changed
Rebound(envs, env, name, value) ==
    [i \in 1..Len(envs) |->
        IF i = env
            THEN [vars |-> [n \in DOMAIN envs[i].vars \cup {name} |->
                               IF n = name THEN value ELSE envs[i].vars[n]],
                  parent |-> envs[i].parent]
        ELSE envs[i]]

\* C14: get(n) returns the binding of the innermost scope of the chain that
\* defines n and raises a RuntimeError when none does; set(n, v) rebinds n
\* in that innermost scope and changes no other scope, and binds n in the
\* scope it was called on when no scope defines n; define(n, v) binds n in
\* the current scope and changes no other scope.
C14_Scoping ==
    /\ last.op = "get" =>
          /\ last.after = last.before
          /\ IF DefinedIn(last.before, last.env, last.name) = {}
                THEN last.sig = "RuntimeError"
             ELSE /\ last.sig = "ok"
                  /\ last.result =
                        last.before[Innermost(last.before, last.env, last.name)].vars[last.name]
    /\ last.op = "set" =>
          last.after =
              Rebound(last.before,
                      IF DefinedIn(last.before, last.env, last.name) = {} THEN last.env
                      ELSE Innermost(last.before, last.env, last.name),
                      last.name, last.value)
    /\ last.op = "define" =>
          last.after = Rebound(last.before, last.env, last.name, last.value)

\* set was called on the innermost scope, which did not define x, while
\* the root and the scope in between did: the scope in between was rebound
C14_Witness ==
    /\ last.op = "set"
    /\ last.env = 3
    /\ "x" \notin DOMAIN last.before[3].vars
    /\ "x" \in DOMAIN last.before[2].vars /\ last.before[2].vars["x"] = IntOf(2)
    /\ "x" \in DOMAIN last.before[1].vars /\ last.before[1].vars["x"] = IntOf(1)
    /\ last.after[2].vars["x"] = last.value
    /\ last.after[1] = last.before[1]
    /\ last.after[3] = last.before[3]

(***************************************************************************)
(* Array methods                                                           *)
(***************************************************************************)
\* a list after one operation with an in-range index
ListStep(list, op) ==
    CASE op.name \in {"push", "insertLast"} -> Append(list, op.args[1])
      [] op.name \in {"pop", "removeLast"} -> SubSeq(list, 1, Len(list) - 1)
      [] op.name = "insertAt" ->
            SubSeq(list, 1, op.args[1]) \o <<op.args[2]>>
                \o SubSeq(list, op.args[1] + 1, Len(list))
      [] op.name = "removeAt" ->
            SubSeq(list, 1, op.args[1]) \o SubSeq(list, op.args[1] + 2, Len(list))
RECURSIVE ListAfter(_, _)
ListAfter(list, ops) ==
    IF ops = <<>> THEN list ELSE ListAfter(ListStep(list, Head(ops)), Tail(ops))

\* every index of ops is in range when ops is applied to list
RECURSIVE InRange(_, _)
InRange(list, ops) ==
    \/ ops = <<>>
    \/ /\ Head(ops).name = "insertAt" => Head(ops).args[1] <= Len(list)
       /\ Head(ops).name = "removeAt" => Head(ops).args[1] < Len(list)
       /\ Head(ops).name \in {"pop", "removeLast"} => Len(list) > 0
       /\ InRange(ListStep(list, Head(ops)), Tail(ops))

\* the lowest index of v in list, counted from 0, or -1
LowestIndex(list, v) ==
    IF \A i \in 1..Len(list) : list[i] # v THEN -1
    ELSE (CHOOSE i \in 1..Len(list) :
              list[i] = v /\ \A j \in 1..(i - 1) : list[j] # v) - 1

\* the last operation was observe(k, v) on the arrayops script
Observing(k) ==
    /\ script.name = "arrayops"
    /\ InRange(<<1, 2, 3>>, script.order)
    /\ last.op = "call"
    /\ last.args[1] = IntOf(k)
Xs == ListAfter(<<1, 2, 3>>, script.order)
Asked == last.args[2].value[1]

\* C15: after push(1), push(2), push(3) and any further push/insertLast,
\* pop/removeLast, insertAt and removeAt with in-range indexes, size() is
\* the number of elements, xs[i] is element i of the list the operations
\* make (so the elements kept are in their order), and find(v) is the
\* lowest index of v or -1.
C15_ArrayMethods ==
    /\ Observing(0) => last.sig = "ok" /\ last.result = IntOf(Len(Xs))
    /\ Observing(1) => last.sig = "ok" /\ last.result = IntOf(LowestIndex(Xs, Asked))
    /\ Observing(2) /\ Asked < Len(Xs) =>
          last.sig = "ok" /\ last.result = IntOf(Xs[Asked + 1])

\* after push(1), push(2), push(3) and removeAt(0), xs[0] is 2
C15_Witness ==
    /\ script = Script("arrayops", <<Op("removeAt", <<0>>)>>)
    /\ Observing(2)
    /\ Asked = 0
    /\ last.result = IntOf(2)

(***************************************************************************)
(* Function calls: when a name is resolved, what a signal crosses, what a  *)
(* callee sees                                                             *)
(***************************************************************************)
\* the step is the load of one of the scripts names
Loads(names) == script.name \in names /\ phase = "new" /\ phase' # "new"

\* the step is a call of f with first argument k in the script name
Calls(name, f, k) ==
    /\ script.name = name
    /\ ncalls' = ncalls + 1
    /\ last'.name = f
    /\ last'.args[1] = IntOf(k)

Registered == "G_Print" \in DOMAIN globals

\* C16: a function name is resolved in the global environment when the call
\* is evaluated, not at load: the load of a script that names G_Print and
\* missing in function bodies succeeds whether or not they are bound; a
\* call of hello invokes G_Print if the host has registered it by then,
\* before or after the load, and raises a RuntimeError otherwise; maybe
\* raises a RuntimeError only when it evaluates the call of missing; and a
\* global initializer that calls hello makes the load fail exactly when
\* G_Print is not registered at the load.
C16_LateBinding ==
    [][/\ Loads({"late"}) => phase' = "loaded" /\ out' = out
       /\ Loads({"late at load"}) =>
            IF Registered
                THEN phase' = "loaded" /\ out' = Append(out, <<"G_Print", "5">>)
            ELSE phase' = "failed" /\ last'.sig = "RuntimeError" /\ out' = out
       /\ \A name \in {"late", "late at load"} :
            /\ Calls(name, "hello", 7) =>
                  IF Registered
                      THEN /\ last'.sig = "ok"
                           /\ last'.result = IntOf(7)
                           /\ out' = Append(out, <<"G_Print", "7">>)
                  ELSE last'.sig = "RuntimeError" /\ out' = out
            /\ Calls(name, "maybe", 0) => last'.sig = "ok" /\ last'.result = IntOf(3)
            /\ Calls(name, "maybe", 1) => last'.sig = "RuntimeError"]_vars

\* the load failed because G_Print was unbound when the initializer called
\* hello; the host registered G_Print afterwards and hello(7) invoked it
C16_Witness ==
    /\ script.name = "late at load"
    /\ phase = "failed"
    /\ last.op = "call" /\ last.name = "hello" /\ last.sig = "ok"
    /\ out = <<(<<"G_Print", "7">>)>>

\* C17 as stated: a break or continue executed in a called function outside
\* any loop or switch of that function does not cross the call: it neither
\* ends nor continues the loop or switch of the caller, so the caller's
\* body runs to its end n times (once in the switch) and the signal does
\* not leave the caller either.
C17_SignalsStayInside ==
    script.name = "signals" /\ last.op = "call" /\ last.name \in Enclosing =>
        /\ last.sig \notin {"Break", "Continue"}
        /\ last.sig = "ok" => last.result = last.args[1]

\* inWhile(2, 1): the break of stop, called through act from the body of
\* the caller's loop, ended that loop in its first iteration
C17_Witness ==
    /\ script.name = "signals"
    /\ last.op = "call" /\ last.name = "inWhile"
    /\ last.args = <<IntOf(2), IntOf(1)>>
    /\ last.sig = "ok"
    /\ last.result = IntOf(0)

\* C18: the scope of a call is a child of the global scope.  A callee reads
\* and assigns globals (readG, writeG), also when its caller holds a local
\* of the same name, which stays as it was (shadow); it cannot read a local
\* of its caller (peek raises a RuntimeError) nor assign one (poke binds its
\* own x: the caller's x is still 5 and no global x appears); and every
\* activation of a recursive function keeps its own local (depth).
C18_CallFrames ==
    [][/\ Calls("frames", "caller", 1) => last'.sig = "RuntimeError" /\ globals' = globals
       /\ Calls("frames", "caller", 2) =>
            last'.sig = "ok" /\ last'.result = IntOf(5) /\ globals' = globals
       /\ Calls("frames", "caller", 3) =>
            last'.sig = "ok" /\ last'.result = globals["g"] /\ globals' = globals
       /\ Calls("frames", "caller", 4) =>
            /\ last'.sig = "ok" /\ last'.result = IntOf(7)
            /\ globals' = [globals EXCEPT !["g"] = IntOf(7)]
       /\ Calls("frames", "caller", 5) =>
            last'.sig = "ok" /\ last'.result = IntOf(99) /\ globals' = globals
       /\ Calls("frames", "shadow", 1) =>
            last'.sig = "ok" /\ last'.result = globals["g"] /\ globals' = globals
       /\ Calls("frames", "shadow", 2) =>
            /\ last'.sig = "ok" /\ last'.result = IntOf(1)
            /\ globals' = [globals EXCEPT !["g"] = IntOf(8)]
       /\ Calls("frames", "shadow", 3) =>
            last'.sig = "ok" /\ last'.result = IntOf(1) /\ globals' = globals
       /\ script.name = "frames" /\ ncalls' = ncalls + 1 /\ last'.name = "depth" =>
            last'.sig = "ok" /\ last'.result = last'.args[1] /\ globals' = globals
       /\ script.name = "frames" /\ ncalls' = ncalls + 1 /\ last'.name = "peek" =>
            last'.sig = "RuntimeError"
       /\ script.name = "frames" => "x" \notin DOMAIN globals']_vars

\* shadow(2): writeG assigned the global g, and the caller's local g, which
\* it returned afterwards, was still 1
C18_Witness ==
    /\ script.name = "frames"
    /\ last.op = "call" /\ last.name = "shadow" /\ last.args = <<IntOf(2)>>
    /\ last.sig = "ok" /\ last.result = IntOf(1)
    /\ globals["g"] = IntOf(8)

(***************************************************************************)
(* The labels of a switch                                                  *)
(***************************************************************************)
\* what lazy(x) logs: the case values evaluated until one matches, then the
\* bodies run from there
LazyTrace(x) ==
    CASE x = 1 -> <<"1", "a", "b">>
      [] x = 2 -> <<"1", "2", "b">>
      [] x = 3 -> <<"1", "2", "3", "c", "d", "e">>
      [] OTHER -> <<"1", "2", "3", "d", "e">>

\* C21: a default label matches where it stands when no earlier case has
\* matched, also when a later case value equals the discriminant: first(x)
\* runs A and never B, for x = 1 too; and once a case has matched no later
\* case value is evaluated: through(x) runs A and B without evaluating
\* tag(1), and lazy(x) evaluates tag(1), tag(2), ... only up to the first
\* match (for x = 4 the default before case tag(4) matches and tag(4) is
\* not evaluated).
C21_DefaultWhereItStands ==
    [][script.name = "defaults" /\ CallStep /\ "G_Print" \in DOMAIN globals =>
        LET x == last'.args[1].value[1]
        IN /\ last'.sig = "ok"
           /\ SubSeq(out', 1, Len(out)) = out
           /\ last'.name = "first" => Logged = <<"A">>
           /\ last'.name = "through" => Logged = <<"A", "B">>
           /\ last'.name = "lazy" => Logged = LazyTrace(x)]_vars

\* first(1): the default label standing before case 1 matched, A was
\* logged and B was not
C21_Witness ==
    /\ script.name = "defaults"
    /\ ncalls = 1
    /\ last.op = "call" /\ last.name = "first" /\ last.args = IntArgs(<<1>>)
    /\ last.sig = "ok"
    /\ Tags(out) = <<"A">>

(***************************************************************************)
(* Increment and decrement                                                 *)
(***************************************************************************)
\* n + d for the value n of an Int (wrapped to 32 bits, as every Int) or of
\* a Float, with the kind of n
Stepped(n, d) ==
    IF n.kind = "float" THEN FloatOf(<<n.value[1] + d * n.value[2], n.value[2], n.value[3]>>)
    ELSE IntOf(WrapSum(n.value[1], d))

\* C22: with the lvalue (a parameter, a global, the field of an object or
\* an array element) holding n, ++x and x++ store n + 1 in it and --x and
\* x-- store n - 1, an Int for an Int (wrapped to 32 bits) and a Float for
\* a Float; the prefix forms evaluate to the value stored and the postfix
\* forms to n.
C22_IncDec ==
    script.name = "incdec" /\ last.op = "call" =>
        LET n == last.args[1]
            stored == Stepped(n, IF script.order[1] = "++" THEN 1 ELSE -1)
        IN /\ last.sig = "ok"
           /\ last.result = stored
           /\ globals["got"] = IF script.order[2] = "prefix" THEN stored ELSE n
           /\ script.order[3] = "global" => globals["g"] = stored

\* xs[1]-- on the Float 1.5: the element holds the Float 0.5 and the
\* expression was the old value 1.5
C22_Witness ==
    /\ script = Script("incdec", <<"--", "postfix", "element">>)
    /\ last.op = "call" /\ last.sig = "ok"
    /\ last.args = <<FloatOf(<<3, 2, 0>>)>>
    /\ last.result = FloatOf(<<1, 2, 0>>)
    /\ globals["got"] = FloatOf(<<3, 2, 0>>)

(***************************************************************************)
(* Targets with side effects                                               *)
(***************************************************************************)
\* the elements of the global array xs and the field n of the global object
\* c after the step
XsAfter == [j \in 1..Len(heap'[globals'["xs"].ref].elements) |->
                heap'[globals'["xs"].ref].elements[j]]
CnAfter == heap'[globals'["c"].ref].fields["n"]
Ints(ns) == [j \in 1..Len(ns) |-> IntOf(ns[j])]

\* the step calls step(k) of the twice script with G_Print registered
Steps(k) ==
    /\ Calls("twice", "step", k)
    /\ "G_Print" \in DOMAIN globals

\* C23: ++ on an index or member target evaluates the object and index
\* expressions twice, first to read and then to store: xs[i++]++ with i = 0
\* reads xs[0], stores into xs[1] and leaves i = 2; obj()[idx()]++ calls
\* obj, idx, obj, idx; pick().n++ calls pick twice.  A compound assignment
\* evaluates its value first and its target once: xs[i++] += 5 leaves
\* i = 1 and adds to xs[0]; obj()[idx()] += val() calls val, obj, idx.
C23_TargetTwice ==
    [][/\ Steps(1) => /\ last'.sig = "ok" /\ last'.result = IntOf(10)
                      /\ globals'["i"] = IntOf(2)
                      /\ XsAfter = Ints(<<10, 11, 30>>)
       /\ Steps(2) => /\ last'.sig = "ok" /\ last'.result = IntOf(11)
                      /\ globals'["i"] = IntOf(2)
                      /\ XsAfter = Ints(<<10, 11, 30>>)
       /\ Steps(3) => /\ last'.sig = "ok" /\ last'.result = IntOf(20)
                      /\ Logged = <<"o", "i", "o", "i">>
                      /\ XsAfter = Ints(<<10, 21, 30>>)
       /\ Steps(4) => /\ last'.sig = "ok" /\ last'.result = IntOf(0)
                      /\ Logged = <<"p", "p">>
                      /\ CnAfter = IntOf(1)
       /\ Steps(5) => /\ last'.sig = "ok" /\ last'.result = IntOf(5)
                      /\ globals'["i"] = IntOf(1)
                      /\ XsAfter = Ints(<<15, 20, 30>>)
       /\ Steps(6) => /\ last'.sig = "ok" /\ last'.result = IntOf(5)
                      /\ Logged = <<"v", "o", "i">>
                      /\ XsAfter = Ints(<<10, 25, 30>>)
       /\ Steps(7) => /\ last'.sig = "ok" /\ last'.result = IntOf(5)
                      /\ Logged = <<"v", "p">>
                      /\ CnAfter = IntOf(5)]_vars

\* step(1): xs[i++]++ read the 10 of xs[0] and stored 11 into xs[1], with
\* i incremented twice
C23_Witness ==
    /\ script.name = "twice"
    /\ last.op = "call" /\ last.name = "step" /\ last.args = IntArgs(<<1>>)
    /\ last.sig = "ok" /\ last.result = IntOf(10)
    /\ globals["i"] = IntOf(2)
    /\ heap[globals["xs"].ref].elements = Ints(<<10, 11, 30>>)

(***************************************************************************)
(* Indexed assignment                                                      *)
(***************************************************************************)
\* the global array xs of the writes script before and after the step
XsCell == heap[globals["xs"].ref]
XsCellAfter == heap'[globals'["xs"].ref]

\* C24 as stated: an indexed assignment xs[i] = v or xs[i] += v with i < 0
\* or i >= n on the array of length n raises a RuntimeError and leaves the
\* length and the elements of the array as they were.
C24_WriteBounds ==
    [][script.name = "writes" /\ CallStep =>
        LET i == last'.args[1].value[1]
        IN i < 0 \/ i >= Len(XsCell.elements) =>
              /\ last'.sig = "RuntimeError"
              /\ XsCellAfter.elements = XsCell.elements]_vars

\* write(3, 7) on the array of two elements returned normally and the
\* array has four elements, the last of them 7
C24_Witness ==
    /\ script.name = "writes"
    /\ ncalls = 1
    /\ last.op = "call" /\ last.name = "write" /\ last.args = IntArgs(<<3, 7>>)
    /\ last.sig = "ok"
    /\ Len(heap[globals["xs"].ref].elements) = 4
    /\ heap[globals["xs"].ref].elements[4] = IntOf(7)

(***************************************************************************)
(* Instantiation                                                           *)
(***************************************************************************)
\* the step is a call of f of the create script
Creates(f) == script.name = "create" /\ CallStep /\ last'.name = f

\* the step returned a new object of the class with the fields of the
\* record, and left every object that existed as it was
Made(class, fields) ==
    /\ last'.sig = "ok"
    /\ last'.result.kind = "object"
    /\ last'.result.ref \notin DOMAIN heap
    /\ heap'[last'.result.ref].kind = "object"
    /\ heap'[last'.result.ref].typeName = class
    /\ DOMAIN heap'[last'.result.ref].fields = DOMAIN fields
    /\ \A n \in DOMAIN fields : heap'[last'.result.ref].fields[n] = IntOf(fields[n])
    /\ \A r \in DOMAIN heap : heap'[r] = heap[r]

\* the global counter seq before the step
SeqBefore == globals["seq"].value[1]

\* C25: instantiateClass makes a new object, distinct from those that
\* exist, and sets its fields in the order of the member list (a before b,
\* though the constructor is declared between them), each from its
\* initializer evaluated in the global scope (c = base + 1 is 101 from the
\* global base, not 6 from the field; v = p is the global 7, not the
\* constructor argument; r = q with no global q raises a RuntimeError) or
\* from the default of its type; the constructor runs afterwards with the
\* object as this (it reads z = 9, declared after it); an unknown class
\* raises a RuntimeError and creates nothing.
C25_Instantiate ==
    [][/\ Creates("makeOrder") =>
            /\ Made("Order", [a |-> SeqBefore + 1, b |-> SeqBefore + 2, n |-> 5, seen |-> 9, z |-> 9])
            /\ globals'["seq"] = IntOf(SeqBefore + 2)
       /\ Creates("makeShadow") => Made("Shadow", [c |-> 101, base |-> 5])
       /\ Creates("makeArg") =>
            Made("Arg", [v |-> 7, got |-> last'.args[1].value[1]])
       /\ Creates("makeBad") => last'.sig = "RuntimeError"
       /\ Creates("makeNope") => last'.sig = "RuntimeError" /\ heap' = heap
       /\ Loads({"create"}) =>
            /\ phase' = "loaded"
            /\ heap'[globals'["first"].ref].fields["a"] = IntOf(1)
            /\ heap'[globals'["first"].ref].fields["b"] = IntOf(2)
            /\ heap'[globals'["first"].ref].fields["seen"] = IntOf(9)]_vars

\* after the load made the global first (a = 1, b = 2), makeOrder returned
\* another object with a = 3, b = 4 and the fields its constructor set
C25_Witness ==
    /\ script.name = "create"
    /\ ncalls = 1
    /\ last.op = "call" /\ last.name = "makeOrder" /\ last.sig = "ok"
    /\ last.result.ref # globals["first"].ref
    /\ heap[last.result.ref].fields["a"] = IntOf(3)
    /\ heap[last.result.ref].fields["b"] = IntOf(4)
    /\ heap[last.result.ref].fields["seen"] = IntOf(9)
    /\ heap[last.result.ref].fields["n"] = IntOf(5)
    /\ heap[globals["first"].ref].fields["a"] = IntOf(1)

(***************************************************************************)
(* Parameters and locals named like fields                                 *)
(***************************************************************************)
\* the fields of the global Box b before and after the step
BoxBefore == heap[globals["b"].ref].fields
BoxAfter == heap'[globals'["b"].ref].fields

\* the step calls method f of b with the argument k
Clobbers(f) == script.name = "clobber" /\ CallStep /\ last'.name = f

\* C26: in a method call a parameter or a local declared at the top level
\* of the body that is named like a field replaces the binding copied from
\* the field (byParam(k) returns k, not the field), and when the method
\* ends, by return or at the end of its body, the field holds the final
\* value of that parameter or local: v = k after byParam(k), v = k + 10
\* after byParamSet(k), w = 2k after byLocal(k); this.v still reads the
\* object during the call.  A local of a nested block leaves the field alone.
C26_FieldClobbered ==
    [][/\ Clobbers("byParam") =>
            /\ last'.sig = "ok" /\ last'.result = last'.args[1]
            /\ BoxAfter = [BoxBefore EXCEPT !["v"] = last'.args[1]]
       /\ Clobbers("byParamSet") =>
            /\ last'.sig = "ok"
            /\ BoxAfter = [BoxBefore EXCEPT !["v"] = IntOf(last'.args[1].value[1] + 10)]
       /\ Clobbers("byLocal") =>
            /\ last'.sig = "ok"
            /\ BoxAfter = [BoxBefore EXCEPT !["w"] = IntOf(last'.args[1].value[1] * 2)]
       /\ Clobbers("viaThis") =>
            /\ last'.sig = "ok" /\ last'.result = BoxBefore["v"]
            /\ BoxAfter = [BoxBefore EXCEPT !["v"] = last'.args[1]]
       /\ Clobbers("nested") =>
            /\ last'.sig = "ok" /\ last'.result = BoxBefore["w"]
            /\ BoxAfter = BoxBefore]_vars

\* b.byParam(4) returned its argument and the field v, 1 before the call,
\* is 4
C26_Witness ==
    /\ script.name = "clobber"
    /\ ncalls = 1
    /\ last.op = "call" /\ last.name = "byParam" /\ last.args = IntArgs(<<4>>)
    /\ last.sig = "ok" /\ last.result = IntOf(4)
    /\ heap[globals["b"].ref].fields["v"] = IntOf(4)
    /\ heap[globals["b"].ref].fields["w"] = IntOf(2)

(***************************************************************************)
(* Null and null handles                                                   *)
(***************************************************************************)
\* the places of the literal null and of the handles without referent
\* among the values of the nulls script
NullPlaces == {i \in 1..Len(NullSubjects) : NullSubjects[i].kind = "NullLiteral"}
NullHandlePlaces ==
    {i \in 1..Len(NullSubjects) :
        NullSubjects[i].kind = "Identifier" /\ NullSubjects[i].name \in {"nh", "nh2"}}

\* the last operation compared value i with value j by f and gave b
NullsGave(f, b) ==
    last.name = f => last.sig = "ok" /\ last.result = BoolOf(b)

\* C27: null equals only null.  Comparing null with any other value, a
\* handle without referent included, gives false for == and true for !=,
\* in either order; null == null is true; and two handles without referent
\* are equal to each other.
C27_NullEqualsOnlyNull ==
    script.name = "nulls" /\ last.op = "call" =>
        LET i == script.order[1]
            j == script.order[2]
        IN /\ (i \in NullPlaces) # (j \in NullPlaces) =>
                NullsGave("eq", FALSE) /\ NullsGave("ne", TRUE)
           /\ i \in NullPlaces /\ j \in NullPlaces =>
                NullsGave("eq", TRUE) /\ NullsGave("ne", FALSE)
           /\ i \in NullHandlePlaces /\ j \in NullHandlePlaces =>
                NullsGave("eq", TRUE) /\ NullsGave("ne", FALSE)

\* nh == null, with nh a handle that was never bound, returned Bool(false)
C27_Witness ==
    /\ script = Script("nulls", <<2, 1>>)
    /\ last.op = "call" /\ last.name = "eq"
    /\ last.sig = "ok"
    /\ last.result = BoolOf(FALSE)

(***************************************************************************)
(* Lexer (lexer.ts).  The source is a sequence of characters; a Lexer is   *)
(* the record of its fields pos, line, col and tokens, with sig telling    *)
(* whether a LexerError was thrown.  A token also keeps start, the offset  *)
(* of its first character (this.pos when readToken is entered), which the  *)
(* code does not store.                                                    *)
(***************************************************************************)
NewLexer(source) ==
    [sig |-> "ok", source |-> source, pos |-> 0, line |-> 1, col |-> 1, tokens |-> <<>>]

KEYWORDS ==
    [else |-> "ELSE", break |-> "BREAK", class |-> "CLASS", and |-> "AND", if |-> "IF",
     for |-> "FOR", while |-> "WHILE", do |-> "DO", return |-> "RETURN",
     continue |-> "CONTINUE", void |-> "VOID", new |-> "NEW", null |-> "NULL_KW",
     this |-> "THIS", const |-> "CONST", true |-> "TRUE", false |-> "FALSE", or |-> "OR",
     not |-> "NOT", switch |-> "SWITCH", case |-> "CASE", default |-> "DEFAULT",
     int |-> "INT", uint |-> "UINT", int8 |-> "INT8", int16 |-> "INT16",
     int64 |-> "INT64", uint8 |-> "UINT8", uint16 |-> "UINT16", uint64 |-> "UINT64",
     float |-> "FLOAT", double |-> "DOUBLE", bool |-> "BOOL", string |-> "STRING"]

Digits09 == {"0", "1", "2", "3", "4", "5", "6", "7", "8", "9"}
Letters ==
    {"a", "b", "c", "d", "e", "f", "g", "h", "i", "j", "k", "l", "m", "n", "o", "p", "q",
     "r", "s", "t", "u", "v", "w", "x", "y", "z", "_",
     "A", "B", "C", "D", "E", "F", "G", "H", "I", "J", "K", "L", "M", "N", "O", "P", "Q",
     "R", "S", "T", "U", "V", "W", "X", "Y", "Z"}
isAtEnd(L) == L.pos >= Len(L.source)
peek(L) == IF L.pos < Len(L.source) THEN L.source[L.pos + 1] ELSE ""
peekNext(L) == IF L.pos + 1 < Len(L.source) THEN L.source[L.pos + 2] ELSE ""
isDigit(ch) == ch \in Digits09
isAlpha(ch) == ch \in Letters
isAlphaNumeric(ch) == ch \in Letters \cup Digits09

\* advance(): the character returned is peek(L)
advance(L) == [L EXCEPT !.pos = @ + 1, !.col = @ + 1]
\* this.line++; this.col = 1
nextLine(L) == [L EXCEPT !.line = @ + 1, !.col = 1]
pushToken(L, type, value, line, col, start) ==
    [L EXCEPT !.tokens = Append(@, [value |-> value, type |-> type, line |-> line,
                                     col |-> col, start |-> start])]

\* while (!this.isAtEnd() && this.peek() !== "\n") this.advance()
RECURSIVE lineComment(_)
lineComment(L) ==
    IF isAtEnd(L) \/ peek(L) = "\n" THEN L ELSE lineComment(advance(L))

\* the loop over the body of a block comment, after its opening
RECURSIVE blockComment(_)
blockComment(L) ==
    IF isAtEnd(L) THEN L
    ELSE LET L1 == IF peek(L) = "\n" THEN nextLine(L) ELSE L
         IN IF peek(L1) = "*" /\ peekNext(L1) = "/" THEN advance(advance(L1))
            ELSE blockComment(advance(L1))

RECURSIVE skipWhitespaceAndComments(_)
skipWhitespaceAndComments(L) ==
    IF isAtEnd(L) THEN L
    ELSE IF peek(L) \in {" ", "\r", "\t"} THEN skipWhitespaceAndComments(advance(L))
    ELSE IF peek(L) = "\n" THEN skipWhitespaceAndComments(nextLine(advance(L)))
    ELSE IF peek(L) = "/" /\ peekNext(L) = "/" THEN skipWhitespaceAndComments(lineComment(L))
    ELSE IF peek(L) = "/" /\ peekNext(L) = "*"
        THEN skipWhitespaceAndComments(blockComment(advance(advance(L))))
    ELSE L

\* the loop of readString; <<lexer, value>>
RECURSIVE stringBody(_, _, _)
stringBody(L, quote, value) ==
    IF isAtEnd(L) \/ peek(L) = quote THEN <<L, value>>
    ELSE LET L1 == IF peek(L) = "\n" THEN nextLine(L) ELSE L
         IN IF peek(L1) = "\\"
                THEN LET esc == peek(advance(L1))
                     IN stringBody(advance(advance(L1)), quote,
                            value \o (CASE esc = "n" -> "\n" [] esc = "t" -> "\t"
                                        [] esc = "r" -> "\r" [] OTHER -> esc))
            ELSE stringBody(advance(L1), quote, value \o peek(L1))

readString(L, quote, line, col, start) ==
    LET b == stringBody(L, quote, "")
    IN IF isAtEnd(b[1]) THEN [b[1] EXCEPT !.sig = "LexerError"]
       ELSE pushToken(advance(b[1]), "STRING_LITERAL", b[2], line, col, start)

\* while (!this.isAtEnd() && this.isDigit(this.peek())) value += this.advance()
RECURSIVE digits(_, _)
digits(L, value) ==
    IF ~isAtEnd(L) /\ isDigit(peek(L)) THEN digits(advance(L), value \o peek(L))
    ELSE <<L, value>>

readNumber(L, first, line, col, start) ==
    LET whole == digits(L, first)
        isFraction == ~isAtEnd(whole[1]) /\ peek(whole[1]) = "." /\ isDigit(peekNext(whole[1]))
        all == IF isFraction THEN digits(advance(whole[1]), whole[2] \o ".") ELSE whole
        isSuffix == ~isAtEnd(all[1]) /\ peek(all[1]) = "f"
    IN pushToken(IF isSuffix THEN advance(all[1]) ELSE all[1],
                 IF isFraction \/ isSuffix THEN "FLOAT_LITERAL" ELSE "INT_LITERAL",
                 all[2], line, col, start)

RECURSIVE alphaNumerics(_, _)
alphaNumerics(L, value) ==
    IF ~isAtEnd(L) /\ isAlphaNumeric(peek(L)) THEN alphaNumerics(advance(L), value \o peek(L))
    ELSE <<L, value>>

readIdentifier(L, first, line, col, start) ==
    LET w == alphaNumerics(L, first)
    IN pushToken(w[1],
                 IF w[2] \in DOMAIN KEYWORDS
                     THEN (IF w[2] \in {"true", "false"} THEN "BOOL_LITERAL" ELSE KEYWORDS[w[2]])
                 ELSE "IDENTIFIER",
                 w[2], line, col, start)

\* the operators of one and of two characters, with their token types
Operators ==
    [x \in {"+", "-", "*", "/", "%", "&", "|", "^", "~", "!", "=", "<", ">", "@", ":",
            "(", ")", "{", "}", "[", "]", ";", ",", ".", "?"} |->
        CASE x = "+" -> "PLUS" [] x = "-" -> "MINUS" [] x = "*" -> "STAR" [] x = "/" -> "SLASH"
          [] x = "%" -> "PERCENT" [] x = "&" -> "AMP" [] x = "|" -> "PIPE" [] x = "^" -> "CARET"
          [] x = "~" -> "TILDE" [] x = "!" -> "BANG" [] x = "=" -> "ASSIGN" [] x = "<" -> "LT"
          [] x = ">" -> "GT" [] x = "@" -> "AT" [] x = ":" -> "COLON" [] x = "(" -> "LPAREN"
          [] x = ")" -> "RPAREN" [] x = "{" -> "LBRACE" [] x = "}" -> "RBRACE"
          [] x = "[" -> "LBRACKET" [] x = "]" -> "RBRACKET" [] x = ";" -> "SEMICOLON"
          [] x = "," -> "COMMA" [] x = "." -> "DOT" [] x = "?" -> "QUESTION"]
\* per first character, the second characters tried by match, in order
Seconds(ch) ==
    CASE ch \in {"+", "-", "&", "|", "<", ">"} -> <<ch, "=">>
      [] ch \in {"*", "/", "%", "^", "!", "="} -> <<"=">>
      [] ch \in {"@", ":"} -> <<ch>>
      [] OTHER -> <<>>
OperatorPairs ==
    [x \in {"++", "+=", "--", "-=", "*=", "/=", "%=", "&&", "&=", "||", "|=", "^=", "!=",
            "==", "<<", "<=", ">>", ">=", "@@", "::"} |->
        CASE x = "++" -> "PLUS_PLUS" [] x = "+=" -> "PLUS_ASSIGN" [] x = "--" -> "MINUS_MINUS"
          [] x = "-=" -> "MINUS_ASSIGN" [] x = "*=" -> "STAR_ASSIGN" [] x = "/=" -> "SLASH_ASSIGN"
          [] x = "%=" -> "PERCENT_ASSIGN" [] x = "&&" -> "AND_AND" [] x = "&=" -> "AMP_ASSIGN"
          [] x = "||" -> "OR_OR" [] x = "|=" -> "PIPE_ASSIGN" [] x = "^=" -> "CARET_ASSIGN"
          [] x = "!=" -> "NEQ" [] x = "==" -> "EQ" [] x = "<<" -> "LSHIFT" [] x = "<=" -> "LTE"
          [] x = ">>" -> "RSHIFT" [] x = ">=" -> "GTE" [] x = "@@" -> "AT_AT"
          [] x = "::" -> "NAMESPACE"]

readToken(L) ==
    LET ch == peek(L)
        A == advance(L)
        matches == {i \in 1..Len(Seconds(ch)) : ~isAtEnd(A) /\ peek(A) = Seconds(ch)[i]}
    IN IF ch \in {"\"", "'"} THEN readString(A, ch, L.line, L.col, L.pos)
       ELSE IF isDigit(ch) THEN readNumber(A, ch, L.line, L.col, L.pos)
       ELSE IF isAlpha(ch) THEN readIdentifier(A, ch, L.line, L.col, L.pos)
       ELSE IF ch \notin DOMAIN Operators THEN [A EXCEPT !.sig = "LexerError"]
       ELSE IF matches # {}
           THEN pushToken(advance(A), OperatorPairs[ch \o peek(A)], ch \o peek(A),
                          L.line, L.col, L.pos)
       ELSE pushToken(A, Operators[ch], ch, L.line, L.col, L.pos)

\* one iteration of the loop of tokenize
tokenizeStep(L) ==
    LET S == skipWhitespaceAndComments(L)
    IN IF isAtEnd(S) THEN S ELSE readToken(S)

\* this.tokens.push({ type: TokenType.EOF, value: "", line, col })
tokenizeEnd(L) == pushToken(L, "EOF", "", L.line, L.col, L.pos)

(***************************************************************************)
(* The lexer at work on the sources made of at most MaxPieces of the       *)
(* pieces below: names, numbers, operators, white space, comments and      *)
(* strings with and without a newline inside.                              *)
(***************************************************************************)
MaxPieces == 3
LexPieces ==
    {<<"a">>, <<"7">>, <<"+">>, <<"=">>, <<" ">>, <<"\t">>, <<"\n">>,
     <<"/", "/", "c">>, <<"/", "*", "c", "*", "/">>, <<"/", "*", "\n", "*", "/">>,
     <<"\"", "s", "\"">>, <<"\"", "\n", "\"">>}
RECURSIVE LexSources(_)
LexSources(n) ==
    IF n = 0 THEN {<<>>}
    ELSE LexSources(n - 1) \cup {s \o p : s \in LexSources(n - 1), p \in LexPieces}

InitLexer ==
    /\ globals = EmptyMap
    /\ classDefs = EmptyMap
    /\ heap = <<>>
    /\ out = <<>>
    /\ phase = "new"
    /\ ncalls = 0
    /\ script = Script("none", <<>>)
    /\ \E source \in LexSources(MaxPieces) :
          last = [op |-> "new Lexer", lexer |-> NewLexer(source)]

\* an iteration of  while (!this.isAtEnd())  in tokenize
TokenizeStep ==
    /\ last.op \in {"new Lexer", "tokenizing"}
    /\ last.lexer.sig = "ok"
    /\ ~isAtEnd(last.lexer)
    /\ last' = [op |-> "tokenizing", lexer |-> tokenizeStep(last.lexer)]
    /\ UNCHANGED <<globals, classDefs, heap, out, script, phase, ncalls>>

\* the end of tokenize: the EOF token
TokenizeEnd ==
    /\ last.op \in {"new Lexer", "tokenizing"}
    /\ last.lexer.sig = "ok"
    /\ isAtEnd(last.lexer)
    /\ last' = [op |-> "tokenized", lexer |-> tokenizeEnd(last.lexer)]
    /\ UNCHANGED <<globals, classDefs, heap, out, script, phase, ncalls>>

NextLexer == TokenizeStep \/ TokenizeEnd
SpecLexer == InitLexer /\ [][NextLexer]_vars

\* the 1-based line and column of the character at offset p of the source
LineAt(source, p) == 1 + Cardinality({i \in 1..p : source[i] = "\n"})
ColAt(source, p) ==
    LET breaks == {i \in 1..p : source[i] = "\n"}
    IN IF breaks = {} THEN p + 1
       ELSE p + 1 - (CHOOSE i \in breaks : \A j \in breaks : j <= i)

\* C28 as stated: every token carries the line and the column of its first
\* character in the source (a newline starts a line at column 1, every
\* other character advances the column by one), also after a block comment
\* or a string literal with a newline inside, and the EOF token carries the
\* position just past the last character.
C28_TokenPositions ==
    last.op \in {"tokenizing", "tokenized"} =>
        \A i \in 1..Len(last.lexer.tokens) :
            LET t == last.lexer.tokens[i]
            IN /\ t.line = LineAt(last.lexer.source, t.start)
               /\ t.col = ColAt(last.lexer.source, t.start)

\* the source is a block comment with a newline inside followed by a: the
\* name stands at line 2, column 3 and its token says column 4
C28_Witness ==
    /\ last.op = "tokenized"
    /\ last.lexer.source = <<"/", "*", "\n", "*", "/", "a">>
    /\ last.lexer.tokens[1].type = "IDENTIFIER"
    /\ last.lexer.tokens[1].line = 2
    /\ last.lexer.tokens[1].col = 4

(***************************************************************************)
(* Parser (parser.ts), the expressions.  A parse function takes the tokens *)
(* and this.pos (counted from 1) and gives [sig, e, pos]: how it ended,    *)
(* the expression and the position after it.  The ten functions parseOr    *)
(* ... parseMulDiv have one shape, a loop over the operators of their      *)
(* level around the function of the next level, and are parseBinary of     *)
(* their level; the line of a node is left out.                            *)
(***************************************************************************)
Parsed(e, pos) == [e |-> e, sig |-> "ok", pos |-> pos]
ParseError(pos) == [e |-> None, sig |-> "ParseError", pos |-> pos]
UnmodelledLiteral(pos) == [e |-> None, sig |-> "Unmodelled", pos |-> pos]
AndThen(r, K(_)) == IF r.sig # "ok" THEN r ELSE K(r)

ASSIGN_OPS ==
    {"ASSIGN", "PLUS_ASSIGN", "MINUS_ASSIGN", "STAR_ASSIGN", "SLASH_ASSIGN",
     "PERCENT_ASSIGN", "AMP_ASSIGN", "PIPE_ASSIGN", "CARET_ASSIGN"}

\* the operators of parseOr, parseAnd, parseBitOr, parseBitXor, parseBitAnd,
\* parseEquality, parseComparison, parseShift, parseAddSub, parseMulDiv
BinaryLevels_sumsLast ==
    <<{"OR_OR"}, {"AND_AND"}, {"PIPE"}, {"CARET"}, {"AMP"}, {"EQ", "NEQ"},
      {"LT", "GT", "LTE", "GTE"}, {"LSHIFT", "RSHIFT"}, {"STAR", "SLASH", "PERCENT"},
      {"PLUS", "MINUS"}>>

BinaryLevels ==
    <<{"OR_OR"}, {"AND_AND"}, {"PIPE"}, {"CARET"}, {"AMP"}, {"EQ", "NEQ"},
      {"LT", "GT", "LTE", "GTE"}, {"LSHIFT", "RSHIFT"}, {"PLUS", "MINUS"},
      {"STAR", "SLASH", "PERCENT"}>>

\* parseInt(tok.value), for the numerals of one digit
DigitValue ==
    [d \in Digits09 |->
        CASE d = "0" -> 0 [] d = "1" -> 1 [] d = "2" -> 2 [] d = "3" -> 3 [] d = "4" -> 4
          [] d = "5" -> 5 [] d = "6" -> 6 [] d = "7" -> 7 [] d = "8" -> 8 [] d = "9" -> 9]

check(tokens, pos, type) == tokens[pos].type = type
\* expect(type): the position after the token, or the error
expect(tokens, pos, type) ==
    IF check(tokens, pos, type) THEN Parsed(tokens[pos].value, pos + 1) ELSE ParseError(pos)

RECURSIVE parser(_, _, _, _)
this_parseExpr(tokens, pos) == parser("parseExpr", 0, tokens, pos)
this_parseAssign(tokens, pos) == parser("parseAssign", 0, tokens, pos)
this_parseUnary(tokens, pos) == parser("parseUnary", 0, tokens, pos)
this_parseBinary(level, tokens, pos) == parser("parseBinary", level, tokens, pos)

\* do { matchTok(AT); args.push(parseExpr()) } while (matchTok(COMMA))
RECURSIVE argsLoop(_, _, _)
argsLoop(args, tokens, pos) ==
    AndThen(this_parseExpr(tokens, IF check(tokens, pos, "AT") THEN pos + 1 ELSE pos),
            LAMBDA a :
                IF check(tokens, a.pos, "COMMA")
                    THEN argsLoop(Append(args, a.e), tokens, a.pos + 1)
                ELSE Parsed(Append(args, a.e), a.pos))

parseArgs(tokens, pos) ==
    IF check(tokens, pos, "RPAREN") THEN Parsed(<<>>, pos) ELSE argsLoop(<<>>, tokens, pos)

parsePrimary(tokens, pos) ==
    LET tok == tokens[pos]
    IN CASE tok.type = "INT_LITERAL" ->
                IF tok.value \in DOMAIN DigitValue
                    THEN Parsed(IntLiteral(DigitValue[tok.value]), pos + 1)
                ELSE UnmodelledLiteral(pos)
         [] tok.type = "FLOAT_LITERAL" -> UnmodelledLiteral(pos)
         [] tok.type = "STRING_LITERAL" -> Parsed(StringLiteral(tok.value), pos + 1)
         [] tok.type = "BOOL_LITERAL" -> Parsed(BoolLiteral(tok.value = "true"), pos + 1)
         [] tok.type = "TRUE" -> Parsed(BoolLiteral(TRUE), pos + 1)
         [] tok.type = "FALSE" -> Parsed(BoolLiteral(FALSE), pos + 1)
         [] tok.type = "NULL_KW" -> Parsed(NullLiteral, pos + 1)
         [] tok.type = "THIS" -> Parsed(Identifier("this"), pos + 1)
         [] tok.type = "NEW" ->
                AndThen(expect(tokens, pos + 1, "IDENTIFIER"), LAMBDA typeName :
                AndThen(expect(tokens, typeName.pos, "LPAREN"), LAMBDA open :
                AndThen(parseArgs(tokens, open.pos), LAMBDA args :
                AndThen(expect(tokens, args.pos, "RPAREN"), LAMBDA close :
                    Parsed(NewExpr(typeName.e, args.e), close.pos)))))
         [] tok.type = "LPAREN" ->
                AndThen(this_parseExpr(tokens, pos + 1), LAMBDA expr :
                AndThen(expect(tokens, expr.pos, "RPAREN"), LAMBDA close :
                    Parsed(expr.e, close.pos)))
         [] tok.type = "IDENTIFIER" ->
                IF check(tokens, pos + 1, "NAMESPACE")
                    THEN AndThen(expect(tokens, pos + 2, "IDENTIFIER"), LAMBDA member :
                            Parsed(MemberExpr(Identifier(tok.value), member.e), member.pos))
                ELSE Parsed(Identifier(tok.value), pos + 1)
         [] OTHER -> ParseError(pos)

\* the while (true) of parsePostfix
RECURSIVE postfixLoop(_, _, _)
postfixLoop(expr, tokens, pos) ==
    CASE check(tokens, pos, "DOT") ->
            AndThen(expect(tokens, pos + 1, "IDENTIFIER"), LAMBDA member :
                postfixLoop(MemberExpr(expr, member.e), tokens, member.pos))
      [] check(tokens, pos, "LPAREN") ->
            AndThen(parseArgs(tokens, pos + 1), LAMBDA args :
            AndThen(expect(tokens, args.pos, "RPAREN"), LAMBDA close :
                postfixLoop(CallExpr(expr, args.e), tokens, close.pos)))
      [] check(tokens, pos, "LBRACKET") ->
            AndThen(this_parseExpr(tokens, pos + 1), LAMBDA index :
            AndThen(expect(tokens, index.pos, "RBRACKET"), LAMBDA close :
                postfixLoop(IndexExpr(expr, index.e), tokens, close.pos)))
      [] check(tokens, pos, "PLUS_PLUS") ->
            postfixLoop(UnaryExpr("++", expr, FALSE), tokens, pos + 1)
      [] check(tokens, pos, "MINUS_MINUS") ->
            postfixLoop(UnaryExpr("--", expr, FALSE), tokens, pos + 1)
      [] OTHER -> Parsed(expr, pos)

parsePostfix(tokens, pos) ==
    AndThen(parsePrimary(tokens, pos), LAMBDA p : postfixLoop(p.e, tokens, p.pos))

parseUnary(tokens, pos) ==
    CASE tokens[pos].type \in {"BANG", "MINUS", "TILDE"} ->
            AndThen(this_parseUnary(tokens, pos + 1), LAMBDA operand :
                Parsed(UnaryExpr(tokens[pos].value, operand.e, TRUE), operand.pos))
      [] tokens[pos].type \in {"PLUS_PLUS", "MINUS_MINUS"} ->
            AndThen(parsePostfix(tokens, pos + 1), LAMBDA operand :
                Parsed(UnaryExpr(tokens[pos].value, operand.e, TRUE), operand.pos))
      [] OTHER -> parsePostfix(tokens, pos)

\* the function of the level above: parseUnary above parseMulDiv
nextLevel(level, tokens, pos) ==
    IF level = Len(BinaryLevels) THEN this_parseUnary(tokens, pos)
    ELSE this_parseBinary(level + 1, tokens, pos)

\* while (check(an operator of the level)) left = BinaryExpr(left, op, right)
RECURSIVE binaryLoop(_, _, _, _)
binaryLoop(level, left, tokens, pos) ==
    IF tokens[pos].type \in BinaryLevels[level]
        THEN AndThen(nextLevel(level, tokens, pos + 1), LAMBDA right :
                binaryLoop(level, BinaryExpr(left, tokens[pos].value, right.e),
                           tokens, right.pos))
    ELSE Parsed(left, pos)

parseBinary(level, tokens, pos) ==
    AndThen(nextLevel(level, tokens, pos), LAMBDA left :
        binaryLoop(level, left.e, tokens, left.pos))

parseOr(tokens, pos) == this_parseBinary(1, tokens, pos)

parseTernary(tokens, pos) ==
    AndThen(parseOr(tokens, pos), LAMBDA condition :
        IF check(tokens, condition.pos, "QUESTION")
            THEN AndThen(this_parseExpr(tokens, condition.pos + 1), LAMBDA then :
                 AndThen(expect(tokens, then.pos, "COLON"), LAMBDA colon :
                 AndThen(this_parseExpr(tokens, colon.pos), LAMBDA else :
                    Parsed(TernaryExpr(condition.e, then.e, else.e), else.pos))))
        ELSE condition)

parseAssign(tokens, pos) ==
    IF check(tokens, pos, "AT") THEN
        AndThen(parseOr(tokens, pos + 1), LAMBDA target :
            IF check(tokens, target.pos, "ASSIGN")
                THEN AndThen(parseOr(tokens,
                                 IF check(tokens, target.pos + 1, "AT")
                                     THEN target.pos + 2 ELSE target.pos + 1),
                             LAMBDA value :
                                Parsed(HandleAssignExpr(target.e, value.e), value.pos))
            ELSE Parsed(UnaryExpr("@", target.e, TRUE), target.pos))
    ELSE
        AndThen(parseTernary(tokens, pos), LAMBDA left :
            IF tokens[left.pos].type \in ASSIGN_OPS
                THEN AndThen(this_parseAssign(tokens, left.pos + 1), LAMBDA value :
                        Parsed(AssignExpr(left.e, tokens[left.pos].value, value.e), value.pos))
            ELSE left)

parseExpr(tokens, pos) == parseAssign(tokens, pos)

parser(method, level, tokens, pos) ==
    CASE method = "parseExpr" -> parseExpr(tokens, pos)
      [] method = "parseAssign" -> parseAssign(tokens, pos)
      [] method = "parseUnary" -> parseUnary(tokens, pos)
      [] method = "parseBinary" -> parseBinary(level, tokens, pos)

\* Lexer.tokenize(): the steps to the end of the source, then the EOF token
RECURSIVE tokenize(_)
tokenize(L) ==
    IF L.sig # "ok" THEN L
    ELSE IF isAtEnd(L) THEN tokenizeEnd(L)
    ELSE tokenize(tokenizeStep(L))

(***************************************************************************)
(* The parser at work on expressions over the names a, b, c, d: two        *)
(* operators in a row (every pair of binary and assignment operators), a   *)
(* prefix operator before and a postfix operator after a binary one, and   *)
(* the conditional with an operator before it, in its middle and after     *)
(* it.  The pieces of a source are separated by blanks.                    *)
(***************************************************************************)
BinaryOperators ==
    {<<"|", "|">>, <<"&", "&">>, <<"|">>, <<"^">>, <<"&">>, <<"=", "=">>, <<"!", "=">>,
     <<"<">>, <<">">>, <<"<", "=">>, <<">", "=">>, <<"<", "<">>, <<">", ">">>,
     <<"+">>, <<"-">>, <<"*">>, <<"/">>, <<"%">>}
AssignOperators ==
    {<<"=">>, <<"+", "=">>, <<"-", "=">>, <<"*", "=">>, <<"/", "=">>, <<"%", "=">>,
     <<"&", "=">>, <<"|", "=">>, <<"^", "=">>}
PrefixOps == {<<"-">>, <<"!">>, <<"~">>, <<"+", "+">>, <<"-", "-">>}
PostfixOps == {<<"+", "+">>, <<"-", "-">>}
InfixOps == BinaryOperators \cup AssignOperators

ExprShapes ==
    [ops : InfixOps \X InfixOps, family : {"a op b op c"}]
    \cup [ops : PrefixOps \X InfixOps, family : {"pre a op b"}]
    \cup [ops : InfixOps \X PostfixOps, family : {"a op b post"}]
    \cup [ops : InfixOps \X PrefixOps, family : {"a op pre b"}]
    \cup [ops : PrefixOps \X PostfixOps, family : {"pre a post"}]
    \cup [ops : InfixOps \X {<<"?">>},
          family : {"a op b ? c : d", "a ? b op c : d", "a ? b : c op d"}]

RECURSIVE Spaced(_)
Spaced(pieces) ==
    IF Len(pieces) = 1 THEN pieces[1]
    ELSE pieces[1] \o <<" ">> \o Spaced(Tail(pieces))

ExprSource(shape) ==
    LET o1 == shape.ops[1]
        o2 == shape.ops[2]
        f == shape.family
    IN Spaced(CASE f = "a op b op c" -> <<<<"a">>, o1, <<"b">>, o2, <<"c">>>>
                [] f = "pre a op b" -> <<o1, <<"a">>, o2, <<"b">>>>
                [] f = "a op b post" -> <<<<"a">>, o1, <<"b">>, o2>>
                [] f = "a op pre b" -> <<<<"a">>, o1, o2, <<"b">>>>
                [] f = "pre a post" -> <<o1, <<"a">>, o2>>
                [] f = "a op b ? c : d" ->
                        <<<<"a">>, o1, <<"b">>, <<"?">>, <<"c">>, <<":">>, <<"d">>>>
                [] f = "a ? b op c : d" ->
                        <<<<"a">>, <<"?">>, <<"b">>, o1, <<"c">>, <<":">>, <<"d">>>>
                [] f = "a ? b : c op d" ->
                        <<<<"a">>, <<"?">>, <<"b">>, <<":">>, <<"c">>, o1, <<"d">>>>)

InitParser ==
    /\ globals = EmptyMap
    /\ classDefs = EmptyMap
    /\ heap = <<>>
    /\ out = <<>>
    /\ phase = "new"
    /\ ncalls = 0
    /\ script = Script("none", <<>>)
    /\ \E shape \in ExprShapes :
        last = [op |-> "source", source |-> ExprSource(shape), shape |-> shape]

\* new Lexer(source).tokenize()
Tokenize ==
    /\ last.op = "source"
    /\ last' = [op |-> "tokenize", source |-> last.source, lexer |-> tokenize(NewLexer(last.source)),
                shape |-> last.shape]
    /\ UNCHANGED <<globals, classDefs, heap, out, script, phase, ncalls>>

\* parseExpr() of a parser that stands at the first of the tokens
ParseExpr ==
    /\ last.op = "tokenize"
    /\ last.lexer.sig = "ok"
    /\ last' = [op |-> "parseExpr", result |-> parseExpr(last.lexer.tokens, 1), source |-> last.source,
                tokens |-> last.lexer.tokens,
                shape |-> last.shape]
    /\ UNCHANGED <<globals, classDefs, heap, out, script, phase, ncalls>>

NextParser == Tokenize \/ ParseExpr
SpecParser == InitParser /\ [][NextParser]_vars

\* the text of an operator
RECURSIVE Text(_)
Text(chars) == IF chars = <<>> THEN "" ELSE chars[1] \o Text(Tail(chars))

\* the steps of the ladder, loosest first; unary is 13 and postfix 14
Ladder ==
    <<AssignOperators, {<<"?">>}, {<<"|", "|">>}, {<<"&", "&">>}, {<<"|">>}, {<<"^">>}, {<<"&">>},
      {<<"=", "=">>, <<"!", "=">>}, {<<"<">>, <<">">>, <<"<", "=">>, <<">", "=">>},
      {<<"<", "<">>, <<">", ">">>}, {<<"+">>, <<"-">>}, {<<"*">>, <<"/">>, <<"%">>}>>
Step(op) == CHOOSE k \in DOMAIN Ladder : op \in Ladder[k]
RightAssociative(op) == op \in AssignOperators

Infix(l, op, r) ==
    IF op \in AssignOperators THEN AssignExpr(l, Text(op), r) ELSE BinaryExpr(l, Text(op), r)
Prefix(op, e) == UnaryExpr(Text(op), e, TRUE)
Postfix(e, op) == UnaryExpr(Text(op), e, FALSE)

\* what the ladder says the source of a shape is
Ladders(shape) ==
    LET o1 == shape.ops[1]
        o2 == shape.ops[2]
        f == shape.family
        a == Identifier("a")
        b == Identifier("b")
        c == Identifier("c")
        d == Identifier("d")
    IN CASE f = "a op b op c" ->
                IF Step(o2) > Step(o1) \/ (Step(o2) = Step(o1) /\ RightAssociative(o1))
                    THEN Infix(a, o1, Infix(b, o2, c))
                ELSE Infix(Infix(a, o1, b), o2, c)
         [] f = "pre a op b" -> Infix(Prefix(o1, a), o2, b)
         [] f = "a op b post" -> Infix(a, o1, Postfix(b, o2))
         [] f = "a op pre b" -> Infix(a, o1, Prefix(o2, b))
         [] f = "pre a post" -> Prefix(o1, Postfix(a, o2))
         [] f = "a op b ? c : d" ->
                IF Step(o1) > Step(o2) THEN TernaryExpr(Infix(a, o1, b), c, d)
                ELSE Infix(a, o1, TernaryExpr(b, c, d))
         [] f = "a ? b op c : d" -> TernaryExpr(a, Infix(b, o1, c), d)
         [] f = "a ? b : c op d" -> TernaryExpr(a, b, Infix(c, o1, d))

\* the five expressions the ladder is explained with
LadderExamples ==
    LET a == Identifier("a")
        b == Identifier("b")
        c == Identifier("c")
    IN {<<<<"a", " ", "-", " ", "b", " ", "-", " ", "c">>,
          BinaryExpr(BinaryExpr(a, "-", b), "-", c)>>,
        <<<<"a", " ", "+", " ", "b", " ", "*", " ", "c">>,
          BinaryExpr(a, "+", BinaryExpr(b, "*", c))>>,
        <<<<"a", " ", "|", "|", " ", "b", " ", "&", "&", " ", "c">>,
          BinaryExpr(a, "||", BinaryExpr(b, "&&", c))>>,
        <<<<"a", " ", "=", "=", " ", "b", " ", "<", " ", "c">>,
          BinaryExpr(a, "==", BinaryExpr(b, "<", c))>>,
        <<<<"a", " ", "=", " ", "b", " ", "=", " ", "c">>,
          AssignExpr(a, "=", AssignExpr(b, "=", c))>>}

\* C29: an expression is parsed along the ladder assignment, ternary, ||, &&,
\* |, ^, &, equality, relational, shift, additive, multiplicative, unary,
\* postfix: of two operators in a row the one further down the ladder binds
\* its operands first, two binary operators of one step group to the left and
\* two assignments to the right, and the whole source is consumed.  So
\* a - b - c is (a - b) - c, a + b * c is a + (b * c), a || b && c is
\* a || (b && c), a == b < c is a == (b < c) and a = b = c is a = (b = c).
C29_PrecedenceLadder ==
    last.op = "parseExpr" =>
        /\ last.result.sig = "ok"
        /\ last.result.e = Ladders(last.shape)
        /\ last.tokens[last.result.pos].type = "EOF"
        /\ \A ex \in LadderExamples : last.source = ex[1] => last.result.e = ex[2]

C29_Witness ==
    /\ last.op = "parseExpr"
    /\ last.result.sig = "ok"
    /\ last.source = <<"a", " ", "+", " ", "b", " ", "*", " ", "c">>
    /\ last.result.e = BinaryExpr(Identifier("a"), "+",
                                  BinaryExpr(Identifier("b"), "*", Identifier("c")))

(***************************************************************************)
(* Parser, the declarations: parse, the top-level declarations, classes,   *)
(* functions and the statements return, break, continue, block, local      *)
(* declaration and expression statement.  enum, template arguments and the *)
(* other statements end a parse with the signal "Unmodelled"; no source    *)
(* below holds one.                                                        *)
(***************************************************************************)
Unmodelled(pos) == [e |-> None, sig |-> "Unmodelled", pos |-> pos]

TYPE_TOKENS ==
    {"INT", "UINT", "INT8", "INT16", "INT64", "UINT8", "UINT16", "UINT64",
     "FLOAT", "DOUBLE", "BOOL", "STRING", "VOID"}

checkIdent(tokens, pos, name) ==
    tokens[pos].type = "IDENTIFIER" /\ tokens[pos].value = name

\* matchTok(type): the position after the token if it is there
matchTok(tokens, pos, type) == IF check(tokens, pos, type) THEN pos + 1 ELSE pos

isTypeStart(tokens, pos) ==
    \/ tokens[pos].type \in TYPE_TOKENS
    \/ /\ tokens[pos].type = "IDENTIFIER"
       /\ pos + 1 \in DOMAIN tokens
       /\ tokens[pos + 1].type \in {"IDENTIFIER", "AT"}

\* the name of a type, then [] and @
parseTypeRef(tokens, pos) ==
    LET p == matchTok(tokens, pos, "CONST")
        named == IF tokens[p].type \in TYPE_TOKENS THEN Parsed(tokens[p].value, p + 1)
                 ELSE IF check(tokens, p, "IDENTIFIER") THEN
                     IF check(tokens, p + 1, "NAMESPACE")
                         THEN AndThen(expect(tokens, p + 2, "IDENTIFIER"), LAMBDA n :
                                Parsed(tokens[p].value \o "::" \o n.e, n.pos))
                     ELSE Parsed(tokens[p].value, p + 1)
                 ELSE ParseError(p)
    IN AndThen(named, LAMBDA n :
        IF check(tokens, n.pos, "LT") THEN Unmodelled(n.pos)
        ELSE IF check(tokens, n.pos, "LBRACKET") /\ n.pos + 1 \in DOMAIN tokens
                /\ tokens[n.pos + 1].type = "RBRACKET"
            THEN Parsed(TypeRef("array", check(tokens, n.pos + 2, "AT"),
                                TypeRef(n.e, FALSE, None)),
                        matchTok(tokens, n.pos + 2, "AT"))
        ELSE Parsed(TypeRef(n.e, check(tokens, n.pos, "AT"), None),
                    matchTok(tokens, n.pos, "AT")))

\* if (matchTok(ASSIGN)) initializer = parseExpr(); expect(SEMICOLON)
initializerRest(typeRef, name, tokens, pos) ==
    IF check(tokens, pos, "ASSIGN")
        THEN AndThen(parseExpr(tokens, pos + 1), LAMBDA init :
             AndThen(expect(tokens, init.pos, "SEMICOLON"), LAMBDA semi :
                Parsed(VarDecl(typeRef, name, init.e), semi.pos)))
    ELSE AndThen(expect(tokens, pos, "SEMICOLON"), LAMBDA semi :
            Parsed(VarDecl(typeRef, name, None), semi.pos))

\* name(size); of an array
arraySizeRest(typeRef, name, tokens, pos) ==
    AndThen(parseExpr(tokens, pos + 1), LAMBDA size :
    AndThen(expect(tokens, size.pos, "RPAREN"), LAMBDA close :
        Parsed(ArrayDecl(typeRef, name, size.e), close.pos)))

parseLocalVarDecl(tokens, pos) ==
    AndThen(parseTypeRef(tokens, matchTok(tokens, pos, "CONST")), LAMBDA typeRef :
    AndThen(expect(tokens, typeRef.pos, "IDENTIFIER"), LAMBDA name :
        IF ~check(tokens, name.pos, "ASSIGN") /\ typeRef.e.name = "array"
           /\ check(tokens, name.pos, "LPAREN")
            THEN AndThen(arraySizeRest(typeRef.e, name.e, tokens, name.pos), LAMBDA decl :
                 AndThen(expect(tokens, decl.pos, "SEMICOLON"), LAMBDA semi :
                    Parsed(decl.e, semi.pos)))
        ELSE initializerRest(typeRef.e, name.e, tokens, name.pos)))

parseExprStmt(tokens, pos) ==
    AndThen(parseExpr(tokens, pos), LAMBDA expr :
    AndThen(expect(tokens, expr.pos, "SEMICOLON"), LAMBDA semi :
        Parsed(ExprStmt(expr.e), semi.pos)))

parseReturn(tokens, pos) ==
    IF check(tokens, pos + 1, "SEMICOLON") THEN Parsed(ReturnStmt(None), pos + 2)
    ELSE AndThen(parseExpr(tokens, pos + 1), LAMBDA value :
         AndThen(expect(tokens, value.pos, "SEMICOLON"), LAMBDA semi :
            Parsed(ReturnStmt(value.e), semi.pos)))

\* try { return parseLocalVarDecl() } catch { pos = saved }, then parseExprStmt()
orExprStmt(decl, tokens, pos) ==
    IF decl.sig = "ParseError" THEN parseExprStmt(tokens, pos) ELSE decl

RECURSIVE parseBlock(_, _)
parseStmt(tokens, pos) ==
    CASE check(tokens, pos, "LBRACE") -> parseBlock(tokens, pos)
      [] tokens[pos].type \in {"IF", "FOR", "WHILE", "DO", "SWITCH"} -> Unmodelled(pos)
      [] check(tokens, pos, "RETURN") -> parseReturn(tokens, pos)
      [] check(tokens, pos, "BREAK") ->
            AndThen(expect(tokens, pos + 1, "SEMICOLON"), LAMBDA semi :
                Parsed(BreakStmt, semi.pos))
      [] check(tokens, pos, "CONTINUE") ->
            AndThen(expect(tokens, pos + 1, "SEMICOLON"), LAMBDA semi :
                Parsed(ContinueStmt, semi.pos))
      [] OTHER ->
            IF check(tokens, pos, "CONST") \/ isTypeStart(tokens, pos)
                THEN orExprStmt(parseLocalVarDecl(tokens, pos), tokens, pos)
            ELSE parseExprStmt(tokens, pos)

\* while (!check(RBRACE) && !isAtEnd()) body.push(parseStmt())
RECURSIVE blockLoop(_, _, _)
blockLoop(body, tokens, pos) ==
    IF tokens[pos].type \in {"RBRACE", "EOF"} THEN Parsed(body, pos)
    ELSE AndThen(parseStmt(tokens, pos), LAMBDA stmt :
            blockLoop(Append(body, stmt.e), tokens, stmt.pos))

parseBlock(tokens, pos) ==
    AndThen(expect(tokens, pos, "LBRACE"), LAMBDA open :
    AndThen(blockLoop(<<>>, tokens, open.pos), LAMBDA body :
    AndThen(expect(tokens, body.pos, "RBRACE"), LAMBDA close :
        Parsed(Block(body.e), close.pos))))

\* do { qualifier; typeRef; name } while (matchTok(COMMA))
RECURSIVE paramsLoop(_, _, _)
paramsLoop(params, tokens, pos) ==
    LET p == IF \E q \in {"in", "out", "inout"} : checkIdent(tokens, pos, q)
                 THEN pos + 1 ELSE pos
    IN AndThen(parseTypeRef(tokens, p), LAMBDA typeRef :
        LET named == check(tokens, typeRef.pos, "IDENTIFIER")
            param == Param(typeRef.e, IF named THEN tokens[typeRef.pos].value ELSE "")
            after == IF named THEN typeRef.pos + 1 ELSE typeRef.pos
        IN IF check(tokens, after, "COMMA")
               THEN paramsLoop(Append(params, param), tokens, after + 1)
           ELSE Parsed(Append(params, param), after))

parseParams(tokens, pos) ==
    IF check(tokens, pos, "RPAREN") THEN Parsed(<<>>, pos) ELSE paramsLoop(<<>>, tokens, pos)

parseFuncRest(returnType, name, tokens, pos) ==
    AndThen(expect(tokens, pos, "LPAREN"), LAMBDA open :
    AndThen(parseParams(tokens, open.pos), LAMBDA params :
    AndThen(expect(tokens, params.pos, "RPAREN"), LAMBDA close :
    AndThen(parseBlock(tokens, close.pos), LAMBDA body :
        Parsed(FuncDecl(returnType, name, params.e, body.e.body), body.pos)))))

parseVarOrFunc(tokens, pos) ==
    AndThen(parseTypeRef(tokens, matchTok(tokens, pos, "CONST")), LAMBDA typeRef :
    AndThen(expect(tokens, typeRef.pos, "IDENTIFIER"), LAMBDA name :
        IF typeRef.e.name = "array" /\ check(tokens, name.pos, "LPAREN")
            THEN AndThen(arraySizeRest(typeRef.e, name.e, tokens, name.pos), LAMBDA decl :
                 AndThen(expect(tokens, decl.pos, "SEMICOLON"), LAMBDA semi :
                    Parsed(decl.e, semi.pos)))
        ELSE IF check(tokens, name.pos, "LPAREN")
            THEN IF check(tokens, pos, "CONST") THEN ParseError(name.pos)
                 ELSE parseFuncRest(typeRef.e, name.e, tokens, name.pos)
        ELSE initializerRest(typeRef.e, name.e, tokens, name.pos)))

parseClassMember(className, tokens, pos) ==
    LET p == matchTok(tokens, pos, "CONST")
    IN IF check(tokens, p, "TILDE")
           THEN AndThen(expect(tokens, p + 1, "IDENTIFIER"), LAMBDA name :
                    parseFuncRest(Type("void"), "~" \o name.e, tokens, name.pos))
       ELSE IF /\ check(tokens, p, "IDENTIFIER")
               /\ p + 1 \in DOMAIN tokens
               /\ tokens[p + 1].type = "LPAREN"
               /\ tokens[p].value = className
           THEN parseFuncRest(Type("void"), className, tokens, p + 1)
       ELSE AndThen(parseTypeRef(tokens, p), LAMBDA typeRef :
            AndThen(expect(tokens, typeRef.pos, "IDENTIFIER"), LAMBDA name :
                IF check(tokens, name.pos, "LPAREN")
                    THEN parseFuncRest(typeRef.e, name.e, tokens, name.pos)
                ELSE initializerRest(typeRef.e, name.e, tokens, name.pos)))

\* while (!check(RBRACE) && !isAtEnd()) members.push(parseClassMember(name))
RECURSIVE membersLoop(_, _, _, _)
membersLoop(className, members, tokens, pos) ==
    IF tokens[pos].type \in {"RBRACE", "EOF"} THEN Parsed(members, pos)
    ELSE AndThen(parseClassMember(className, tokens, pos), LAMBDA member :
            membersLoop(className, Append(members, member.e), tokens, member.pos))

parseClass(tokens, pos) ==
    AndThen(expect(tokens, pos, "CLASS"), LAMBDA class :
    AndThen(expect(tokens, class.pos, "IDENTIFIER"), LAMBDA name :
    AndThen(expect(tokens, name.pos, "LBRACE"), LAMBDA open :
    AndThen(membersLoop(name.e, <<>>, tokens, open.pos), LAMBDA members :
    AndThen(expect(tokens, members.pos, "RBRACE"), LAMBDA close :
        Parsed(ClassDecl(name.e, members.e), close.pos))))))

parseTopLevel(tokens, pos) ==
    IF check(tokens, pos, "CLASS") THEN parseClass(tokens, pos)
    ELSE IF checkIdent(tokens, pos, "enum") THEN Unmodelled(pos)
    ELSE parseVarOrFunc(tokens, pos)

\* parse(): while (!isAtEnd()) body.push(parseTopLevel())
RECURSIVE parseProgram(_, _, _)
parseProgram(body, tokens, pos) ==
    IF tokens[pos].type = "EOF" THEN Parsed(body, pos)
    ELSE AndThen(parseTopLevel(tokens, pos), LAMBDA decl :
            parseProgram(Append(body, decl.e), tokens, decl.pos))

\* the rest of load once the parser is through: thrown is the engine an
\* exception of the parser leaves behind
loadProgram(program, thrown, m) ==
    IF program.sig # "ok" THEN Throw(program.sig, "parser", thrown)
    ELSE execute(program.e, 1, m)

\* the rest of load once the lexer is through
loadTokens(lexer, thrown, m) ==
    IF lexer.sig # "ok" THEN Throw(lexer.sig, "lexer", thrown)
    ELSE loadProgram(parseProgram(<<>>, lexer.tokens, 1), thrown, m)

\* a load that, when the lexer or the parser raises, leaves an engine without
\* the classes it had
load_forgets(source, m) ==
    loadTokens(tokenize(NewLexer(source)), [m EXCEPT !.classDefs = EmptyMap], m)

\* ScriptEngine.load(source): tokenize, parse, execute; an exception of the
\* lexer or of the parser leaves before the interpreter is entered
load(source, m) == loadTokens(tokenize(NewLexer(source)), m, m)

(***************************************************************************)
(* The host loads sources one after another into one engine.  A source is  *)
(* up to MaxDecls different declarations of                                 *)
(*   x        int x=1;                                                      *)
(*   f        int f(){return x;}                                            *)
(*   K        class K{int v=3;}                                             *)
(*   lexer    int l=#;             # is no character of the language        *)
(*   parser   int p=;              an initializer is missing                *)
(*   runtime  int r=q;             q is not defined                         *)
(***************************************************************************)
MaxLoads == 2
MaxDecls == 3
DeclNames == {"x", "f", "K", "lexer", "parser", "runtime"}
DeclText(piece) ==
    CASE piece = "x" -> <<"i", "n", "t", " ", "x", "=", "1", ";">>
      [] piece = "f" -> <<"i", "n", "t", " ", "f", "(", ")", "{", "r", "e", "t", "u", "r", "n", " ", "x", ";", "}">>
      [] piece = "K" -> <<"c", "l", "a", "s", "s", " ", "K", "{", "i", "n", "t", " ", "v", "=", "3", ";", "}">>
      [] piece = "lexer" -> <<"i", "n", "t", " ", "l", "=", "#", ";">>
      [] piece = "parser" -> <<"i", "n", "t", " ", "p", "=", ";">>
      [] piece = "runtime" -> <<"i", "n", "t", " ", "r", "=", "q", ";">>

LoadPieces ==
    {p \in UNION {[1..n -> DeclNames] : n \in 1..MaxDecls} :
        \A i, j \in DOMAIN p : i # j => p[i] # p[j]}

RECURSIVE SourceOf(_)
SourceOf(pieces) ==
    IF pieces = <<>> THEN <<>> ELSE DeclText(pieces[1]) \o SourceOf(Tail(pieces))

InitLoad == EngineInit /\ script = Script("sources", <<>>)

\* engine.load(source); the exception, if any, reaches the host as sig
LoadedSource(pieces, r) ==
    /\ Keeps(r)
    /\ phase' = IF r.sig = "ok" THEN "loaded" ELSE "failed"
    /\ last' = [op |-> "load", sig |-> r.sig, result |-> r.v, pieces |-> pieces]

LoadSource(pieces) ==
    /\ ncalls < MaxLoads
    /\ LoadedSource(pieces, load(SourceOf(pieces), Machine(FALSE)))
    /\ ncalls' = ncalls + 1
    /\ UNCHANGED script

NextLoad == \E pieces \in LoadPieces : LoadSource(pieces)
SpecLoad == InitLoad /\ [][NextLoad]_vars

Holds(pieces, name) == \E i \in DOMAIN pieces : pieces[i] = name
Before(pieces, a, b) == \E i, j \in DOMAIN pieces : i < j /\ pieces[i] = a /\ pieces[j] = b

\* C30: a load that raises a LexerError or a ParseError leaves the global
\* environment and the class table exactly as they were; a load that raises a
\* RuntimeError in the initializer of a global variable leaves every class
\* and function of the source and every global variable declared before the
\* failing one registered, and what the engine held before is still there.
C30_FailedLoad ==
    [][\A pieces \in LoadPieces :
        (last'.op = "load" /\ last'.pieces = pieces /\ ncalls' = ncalls + 1) =>
            /\ Holds(pieces, "lexer") =>
                /\ last'.sig = "LexerError"
                /\ UNCHANGED <<globals, classDefs>>
            /\ (Holds(pieces, "parser") /\ ~Holds(pieces, "lexer")) =>
                /\ last'.sig = "ParseError"
                /\ UNCHANGED <<globals, classDefs>>
            /\ (Holds(pieces, "runtime") /\ ~Holds(pieces, "parser")
                    /\ ~Holds(pieces, "lexer")) =>
                /\ last'.sig = "RuntimeError"
                /\ Holds(pieces, "K") =>
                    /\ "K" \in DOMAIN classDefs'
                    /\ "K" \in DOMAIN globals' /\ globals'["K"].kind = "native_function"
                /\ Holds(pieces, "f") =>
                    "f" \in DOMAIN globals' /\ globals'["f"].kind = "function"
                /\ Before(pieces, "x", "runtime") =>
                    "x" \in DOMAIN globals' /\ globals'["x"] = IntOf(1)
                /\ "r" \notin DOMAIN globals'
                /\ DOMAIN globals \subseteq DOMAIN globals'
                /\ DOMAIN classDefs \subseteq DOMAIN classDefs'
                /\ \A n \in DOMAIN globals \ {"x", "f", "K"} : globals'[n] = globals[n]]_vars

\* after a load of x, the load of f followed by the declaration without its
\* initializer raised a ParseError: x is there and f is not
C30_Witness ==
    /\ last.op = "load"
    /\ last.pieces = <<"f", "parser">>
    /\ last.sig = "ParseError"
    /\ ncalls = 2
    /\ "x" \in DOMAIN globals
    /\ "f" \notin DOMAIN globals

====
